---- MODULE Spec2Model ----
(***************************************************************************)
(* Rights-based access control over the grievance category / flag          *)
(* configuration: the configuration normaliser and reconciler of apps.py   *)
(* (TicketConfig) and the evaluator, view builders and queryset filter of  *)
(* access_control.py (GrievanceAccessControl).                             *)
(*                                                                         *)
(* Representation of Python values:                                        *)
(*   str        a sequence of one-character strings, <<"a", "|", "b">>     *)
(*   None       the value None (string-typed slots) or NoInfo / NoUser     *)
(*              (dict-typed and user-typed slots)                          *)
(*   dict       a function on its keys; a dict whose insertion order is    *)
(*              observable is [keys |-> order of insertion, val |-> map]   *)
(*   list       a sequence                                                 *)
(*   str | dict an element of a polymorphic configuration list carries its *)
(*              Python type: [str |-> s] is a str, any other record a dict *)
(***************************************************************************)
EXTENDS Integers, Sequences, FiniteSets, TLC

VARIABLES
    raw,   \* the configuration as ModuleConfiguration.get_or_default returned it
    cfg,   \* the cfg dict that ready() passes along and rewrites
    tc,    \* the class attributes of TicketConfig
    pc,    \* position of ready()
    ret    \* the last call of a GrievanceAccessControl method and its result

vars == <<raw, cfg, tc, pc, ret>>

----------------------------------------------------------------------------
(* Python values *)

None == <<"None">>
NoInfo == [None |-> TRUE]
NoUser == [None |-> TRUE]

Truthy(s) == s # None /\ s # <<>>

EmptyMap == [z \in {} |-> z]
EmptyDict == [keys |-> <<>>, val |-> EmptyMap]

\* d.get(k, default) on a dict with string keys
DictGet(d, k, default) == IF k \in DOMAIN d THEN d[k] ELSE default

\* d[k] = v on a plain map
MapPut(d, k, v) == [x \in DOMAIN d \cup {k} |-> IF x = k THEN v ELSE d[x]]

\* d[k] = v on an insertion-ordered dict: a key that is overwritten keeps its place
DictPut(d, k, v) ==
    [keys |-> IF k \in DOMAIN d.val THEN d.keys ELSE Append(d.keys, k),
     val  |-> MapPut(d.val, k, v)]

Str(s) == [str |-> s]
IsStr(item) == "str" \in DOMAIN item
IsDict(item) == ~IsStr(item)

\* the str elements of a configuration list, as plain strings
Names(list) == [i \in 1..Len(list) |-> list[i].str]

Range(s) == {s[i] : i \in 1..Len(s)}

----------------------------------------------------------------------------
(* str operations *)

\* f"{parent_name}|{name}"
Join(parent_name, name) == parent_name \o <<"|">> \o name

\* '|' in s
HasPipe(s) == \E i \in 1..Len(s) : s[i] = "|"

\* s.split('|')[-1]
SplitLast(s) ==
    LET bars == {i \in 1..Len(s) : s[i] = "|"}
        last == IF bars = {} THEN 0 ELSE CHOOSE i \in bars : \A j \in bars : j <= i
    IN SubSeq(s, last + 1, Len(s))

IsSpace(c) == c = " "

\* s.split(): the maximal runs of non-whitespace characters, in order
RECURSIVE SplitFrom(_, _, _, _)
SplitFrom(s, i, cur, acc) ==
    IF i > Len(s) THEN (IF cur = <<>> THEN acc ELSE Append(acc, cur))
    ELSE IF IsSpace(s[i])
         THEN SplitFrom(s, i + 1, <<>>, IF cur = <<>> THEN acc ELSE Append(acc, cur))
         ELSE SplitFrom(s, i + 1, Append(cur, s[i]), acc)

Split(s) == SplitFrom(s, 1, <<>>, <<>>)

\* str.lower() of one character
LowerChar(c) == IF c = "S" THEN "s" ELSE IF c = "T" THEN "t" ELSE IF c = "U" THEN "u" ELSE c

Lower(s) == [i \in 1..Len(s) |-> LowerChar(s[i])]

\* needle in hay
Contains(hay, needle) ==
    \E i \in 0..(Len(hay) - Len(needle)) :
        \A j \in 1..Len(needle) : hay[i + j] = needle[j]

\* the SQL of flags__icontains: NULL never matches
IContains(hay, needle) == hay # None /\ Contains(Lower(hay), Lower(needle))

----------------------------------------------------------------------------
(* apps.py: TicketConfig.__process_unified_categories *)

DEFAULT_TIME_RESOLUTION == <<"5", ",", "0">>

\* mutant of inherited: the parent's value is never taken
inherited_never(parent_info, key, default) == default

\* parent_info.get(key, default) if parent_info else default
inherited(parent_info, key, default) ==
    IF parent_info # NoInfo THEN DictGet(parent_info, key, default) ELSE default

RECURSIVE process_category_item(_, _, _, _)
RECURSIVE process_children(_, _, _, _, _)

\* st = [processed_categories, flat_types], the two locals the closure appends to;
\* the result is the new st and the value returned (a full name or None)
process_category_item(item, parent_name, parent_info, st) ==
    IF IsStr(item) THEN
        LET full_name == IF Truthy(parent_name) THEN Join(parent_name, item.str) ELSE item.str
            info == [priority |-> inherited(parent_info, "priority", "Medium"),
                     permissions |-> inherited(parent_info, "permissions", <<>>),
                     default_flags |-> inherited(parent_info, "default_flags", <<>>),
                     resolution_times |-> inherited(parent_info, "resolution_times", None),
                     parent |-> parent_name,
                     children |-> EmptyMap]
        IN [st |-> [processed_categories |-> DictPut(st.processed_categories, full_name, info),
                    flat_types |-> Append(st.flat_types, Str(full_name))],
            ret |-> full_name]
    ELSE IF IsDict(item) THEN
        LET cat_name == DictGet(item, "name", None) IN
        IF ~Truthy(cat_name) THEN [st |-> st, ret |-> None]
        ELSE
        LET full_name == IF Truthy(parent_name) THEN Join(parent_name, cat_name) ELSE cat_name
            permissions == DictGet(item, "permissions", inherited(parent_info, "permissions", <<>>))
            priority == DictGet(item, "priority", inherited(parent_info, "priority", "Medium"))
            default_flags == DictGet(item, "default_flags",
                                     inherited(parent_info, "default_flags", <<>>))
            own_times == DictGet(item, "resolution_times", None)
            resolution_times == IF ~Truthy(own_times) /\ parent_info # NoInfo
                                THEN DictGet(parent_info, "resolution_times", None)
                                ELSE own_times
            category_info == [priority |-> priority,
                              permissions |-> permissions,
                              default_flags |-> default_flags,
                              resolution_times |-> resolution_times,
                              parent |-> parent_name,
                              children |-> EmptyMap]
            st1 == [processed_categories |-> DictPut(st.processed_categories, full_name, category_info),
                    flat_types |-> Append(st.flat_types, Str(full_name))]
        IN [st |-> process_children(DictGet(item, "children", <<>>), 1, full_name, category_info, st1),
            ret |-> full_name]
    ELSE [st |-> st, ret |-> None]

RECURSIVE process_children_unlinked(_, _, _, _, _)
\* mutant of process_children: a child is processed and not registered in
\* category_info['children']
process_children_unlinked(children, i, full_name, category_info, st) ==
    IF i > Len(children) THEN st
    ELSE process_children_unlinked(children, i + 1, full_name, category_info,
             process_category_item(children[i], full_name, category_info, st).st)

\* the loop over item['children'] from its i-th element on. category_info is
\* the object stored at processed_categories[full_name] (no descendant has
\* that key, its path is longer), so registering a child in
\* category_info['children'] shows in processed_categories
process_children(children, i, full_name, category_info, st) ==
    IF i > Len(children) THEN st
    ELSE
    LET r == process_category_item(children[i], full_name, category_info, st)
        child_full_name == r.ret
        child_short_name == SplitLast(child_full_name)
        pcs == r.st.processed_categories
        st2 == IF Truthy(child_full_name)
               THEN [r.st EXCEPT !.processed_categories =
                        [pcs EXCEPT !.val[full_name].children =
                            MapPut(@, child_short_name, child_full_name)]]
               ELSE r.st
    IN process_children(children, i + 1, full_name, category_info, st2)

RECURSIVE process_top_level_backwards(_, _, _)
\* mutant of process_top_level: the last category is processed first
process_top_level_backwards(categories, i, st) ==
    IF i > Len(categories) THEN st
    ELSE process_category_item(categories[i], None, NoInfo,
                               process_top_level_backwards(categories, i + 1, st)).st

RECURSIVE process_top_level(_, _, _)
\* for category in categories: process_category_item(category)
process_top_level(categories, i, st) ==
    IF i > Len(categories) THEN st
    ELSE process_top_level(categories, i + 1,
                           process_category_item(categories[i], None, NoInfo, st).st)

\* the processed_categories and flat_types the method computes from cfg
process_unified_categories(c) ==
    process_top_level(DictGet(c, "grievance_types", <<>>), 1,
                      [processed_categories |-> EmptyDict, flat_types |-> <<>>])

----------------------------------------------------------------------------
(* apps.py: TicketConfig.__process_unified_flags *)

RECURSIVE process_flags_from_nameless(_, _, _)
\* mutant of process_flags_from: a dict without a name is recorded all the same
process_flags_from_nameless(flags, i, st) ==
    IF i > Len(flags) THEN st
    ELSE
    LET flag == flags[i] IN
    IF IsStr(flag) THEN
        process_flags_from_nameless(flags, i + 1,
            [processed_flags |-> DictPut(st.processed_flags, flag.str,
                                         [priority |-> "Medium", permissions |-> <<>>]),
             flat_flags |-> Append(st.flat_flags, Str(flag.str))])
    ELSE
        LET flag_name == DictGet(flag, "name", None) IN
        process_flags_from_nameless(flags, i + 1,
            [processed_flags |-> DictPut(st.processed_flags, flag_name,
                                         [priority |-> DictGet(flag, "priority", "Medium"),
                                          permissions |-> DictGet(flag, "permissions", <<>>)]),
             flat_flags |-> Append(st.flat_flags, Str(flag_name))])

RECURSIVE process_flags_from(_, _, _)
process_flags_from(flags, i, st) ==
    IF i > Len(flags) THEN st
    ELSE
    LET flag == flags[i] IN
    IF IsStr(flag) THEN
        process_flags_from(flags, i + 1,
            [processed_flags |-> DictPut(st.processed_flags, flag.str,
                                         [priority |-> "Medium", permissions |-> <<>>]),
             flat_flags |-> Append(st.flat_flags, Str(flag.str))])
    ELSE
        LET flag_name == DictGet(flag, "name", None) IN
        IF ~Truthy(flag_name) THEN process_flags_from(flags, i + 1, st)
        ELSE process_flags_from(flags, i + 1,
            [processed_flags |-> DictPut(st.processed_flags, flag_name,
                                         [priority |-> DictGet(flag, "priority", "Medium"),
                                          permissions |-> DictGet(flag, "permissions", <<>>)]),
             flat_flags |-> Append(st.flat_flags, Str(flag_name))])

process_unified_flags(c) ==
    process_flags_from(DictGet(c, "grievance_flags", <<>>), 1,
                       [processed_flags |-> EmptyDict, flat_flags |-> <<>>])

----------------------------------------------------------------------------
(* apps.py: TicketConfig.__validate_grievance_default_resolution_time *)

\* mutant of legacy_resolution: every legacy value is replaced by the global one
legacy_resolution_everywhere(c) ==
    LET dict_field == DictGet(c, "default_resolution", EmptyMap) IN
    [key \in DOMAIN dict_field |-> DictGet(c, "resolution_times", DEFAULT_TIME_RESOLUTION)]

\* the legacy default_resolution map after its empty values are replaced
legacy_resolution(c) ==
    LET dict_field == DictGet(c, "default_resolution", EmptyMap) IN
    [key \in DOMAIN dict_field |->
        IF dict_field[key] \in {<<>>, None}
        THEN DictGet(c, "resolution_times", DEFAULT_TIME_RESOLUTION)
        ELSE dict_field[key]]

\* mutant of unified_resolution: a category without a value of its own and
\* without a legacy one is given the global default
unified_resolution_defaulted(c) ==
    LET dict_field == legacy_resolution(c)
        processed_categories == DictGet(c, "processed_categories", EmptyDict)
        own == {k \in DOMAIN processed_categories.val :
                    Truthy(DictGet(processed_categories.val[k], "resolution_times", None))}
    IN [k \in DOMAIN dict_field \cup DOMAIN processed_categories.val |->
            IF k \in own THEN processed_categories.val[k].resolution_times
            ELSE IF k \in DOMAIN dict_field THEN dict_field[k]
            ELSE DictGet(c, "resolution_times", DEFAULT_TIME_RESOLUTION)]

\* mutant of unified_resolution: a legacy value is kept over the category's
unified_resolution_legacy_first(c) ==
    LET dict_field == legacy_resolution(c)
        processed_categories == DictGet(c, "processed_categories", EmptyDict)
        own == {k \in DOMAIN processed_categories.val :
                    Truthy(DictGet(processed_categories.val[k], "resolution_times", None))}
    IN [k \in DOMAIN dict_field \cup own |->
            IF k \in DOMAIN dict_field THEN dict_field[k]
            ELSE processed_categories.val[k].resolution_times]

\* unified_resolution: the legacy map overlaid with the categories' own values
unified_resolution(c) ==
    LET dict_field == legacy_resolution(c)
        processed_categories == DictGet(c, "processed_categories", EmptyDict)
        own == {k \in DOMAIN processed_categories.val :
                    Truthy(DictGet(processed_categories.val[k], "resolution_times", None))}
    IN [k \in DOMAIN dict_field \cup own |->
            IF k \in own THEN processed_categories.val[k].resolution_times
            ELSE dict_field[k]]

\* value.split(','): the pieces between the commas, empty ones included
RECURSIVE SplitCommaFrom(_, _, _, _)
SplitCommaFrom(s, i, cur, acc) ==
    IF i > Len(s) THEN Append(acc, cur)
    ELSE IF s[i] = ","
         THEN SplitCommaFrom(s, i + 1, <<>>, Append(acc, cur))
         ELSE SplitCommaFrom(s, i + 1, Append(cur, s[i]), acc)

SplitComma(s) == SplitCommaFrom(s, 1, <<>>, <<>>)

Digits == <<"0", "1", "2", "3", "4", "5", "6", "7", "8", "9">>
IsDigit(c) == c \in Range(Digits)
DigitValue(c) == (CHOOSE d \in 1..Len(Digits) : Digits[d] = c) - 1

\* s.strip()
RECURSIVE LStrip(_)
LStrip(s) == IF s # <<>> /\ IsSpace(s[1]) THEN LStrip(Tail(s)) ELSE s
RECURSIVE RStrip(_)
RStrip(s) == IF s # <<>> /\ IsSpace(s[Len(s)]) THEN RStrip(SubSeq(s, 1, Len(s) - 1)) ELSE s

RECURSIVE DecimalValue(_)
DecimalValue(ds) ==
    IF ds = <<>> THEN 0
    ELSE 10 * DecimalValue(SubSeq(ds, 1, Len(ds) - 1)) + DigitValue(ds[Len(ds)])

ValueError == [raised |-> TRUE]

\* int(s) on blanks, a sign, digits and letters: the blanks around are
\* dropped, one sign is taken, and what is left must be digits, one at least
int(s) ==
    LET t == RStrip(LStrip(s))
        signed == t # <<>> /\ t[1] \in {"+", "-"}
        body == IF signed THEN Tail(t) ELSE t
    IN IF body = <<>> \/ \E i \in 1..Len(body) : ~IsDigit(body[i]) THEN ValueError
       ELSE [raised |-> FALSE,
             v |-> IF signed /\ t[1] = "-" THEN 0 - DecimalValue(body) ELSE DecimalValue(body)]

\* __validate_resolution_time_format: the ValueError of int() is caught and
\* answered False; parts[1] exists as soon as value holds a comma
validate_resolution_time_format(value) ==
    IF "," \notin Range(value) THEN FALSE
    ELSE
    LET parts == SplitComma(value)
        days == int(parts[1])
        hours == int(parts[2])
    IN IF days.raised \/ hours.raised THEN FALSE
       ELSE 0 <= days.v /\ days.v < 99 /\ 0 <= hours.v /\ hours.v < 24

\* mutant of load_config: the two flat lists are not loaded
load_config_without_lists(c, T) ==
    [field \in DOMAIN T |->
        IF field \in DOMAIN c \ {"grievance_types", "grievance_flags"}
        THEN c[field] ELSE T[field]]

\* the attributes of TicketConfig that __load_config finds in cfg
load_config(c, T) == [field \in DOMAIN T |-> IF field \in DOMAIN c THEN c[field] ELSE T[field]]

----------------------------------------------------------------------------
(* access_control.py: GrievanceAccessControl. T is the TicketConfig the    *)
(* method reads.                                                           *)

has_perm(user, perm_code) == perm_code \in user.perms

\* isinstance(permissions, list)
IsList(permissions) == DOMAIN permissions = 1..Len(permissions)

\* mutants of check_category_permission: every listed code is required; an
\* empty permissions list falls through to the loop over the codes
check_category_permission_all(T, user, category_name) ==
    IF user = NoUser \/ user.is_anonymous THEN FALSE
    ELSE IF T.processed_categories.keys = <<>>
            \/ category_name \notin DOMAIN T.processed_categories.val
    THEN TRUE
    ELSE LET permissions == T.processed_categories.val[category_name].permissions
         IN permissions = <<>>
            \/ \A i \in 1..Len(permissions) : has_perm(user, permissions[i])

check_category_permission_loop(T, user, category_name) ==
    IF user = NoUser \/ user.is_anonymous THEN FALSE
    ELSE IF T.processed_categories.keys = <<>>
            \/ category_name \notin DOMAIN T.processed_categories.val
    THEN TRUE
    ELSE LET permissions == T.processed_categories.val[category_name].permissions
         IN \E i \in 1..Len(permissions) : has_perm(user, permissions[i])

\* mutant of check_category_permission: a name that is not configured is denied
check_category_permission_closed(T, user, category_name) ==
    IF user = NoUser \/ user.is_anonymous THEN FALSE
    ELSE IF T.processed_categories.keys = <<>> THEN TRUE
    ELSE IF category_name \notin DOMAIN T.processed_categories.val THEN FALSE
    ELSE LET permissions == T.processed_categories.val[category_name].permissions
         IN permissions = <<>>
            \/ \E i \in 1..Len(permissions) : has_perm(user, permissions[i])

RECURSIVE check_category_permission(_, _, _)
check_category_permission(T, user, category_name) ==
    IF user = NoUser \/ user.is_anonymous THEN FALSE
    ELSE
    LET processed_categories == T.processed_categories IN
    IF processed_categories.keys = <<>> \/ category_name \notin DOMAIN processed_categories.val
    THEN TRUE
    ELSE
    LET category_info == processed_categories.val[category_name]
        permissions == DictGet(category_info, "permissions", <<>>)
    IN IF permissions = <<>> THEN TRUE
       ELSE IF IsList(permissions)
       THEN \E i \in 1..Len(permissions) : has_perm(user, permissions[i])
       ELSE LET parent_name == DictGet(category_info, "parent", None)
            IN IF Truthy(parent_name)
               THEN check_category_permission(T, user, parent_name)
               ELSE TRUE

\* mutants of check_flag_permission: is_anonymous is not looked at; a name
\* that is not configured is denied
check_flag_permission_anon(T, user, flag_name) ==
    IF user = NoUser THEN FALSE
    ELSE IF T.processed_flags.keys = <<>> \/ flag_name \notin DOMAIN T.processed_flags.val
    THEN TRUE
    ELSE LET permissions == T.processed_flags.val[flag_name].permissions
         IN permissions = <<>>
            \/ \E i \in 1..Len(permissions) : has_perm(user, permissions[i])

check_flag_permission_closed(T, user, flag_name) ==
    IF user = NoUser \/ user.is_anonymous THEN FALSE
    ELSE IF T.processed_flags.keys = <<>> THEN TRUE
    ELSE IF flag_name \notin DOMAIN T.processed_flags.val THEN FALSE
    ELSE LET permissions == T.processed_flags.val[flag_name].permissions
         IN permissions = <<>>
            \/ \E i \in 1..Len(permissions) : has_perm(user, permissions[i])

check_flag_permission(T, user, flag_name) ==
    IF user = NoUser \/ user.is_anonymous THEN FALSE
    ELSE
    LET processed_flags == T.processed_flags IN
    IF processed_flags.keys = <<>> \/ flag_name \notin DOMAIN processed_flags.val
    THEN TRUE
    ELSE
    LET flag_info == processed_flags.val[flag_name]
        permissions == DictGet(flag_info, "permissions", <<>>)
    IN IF permissions = <<>> THEN TRUE
       ELSE IF IsList(permissions)
       THEN \E i \in 1..Len(permissions) : has_perm(user, permissions[i])
       ELSE TRUE

\* mutants of get_accessible_categories: include_children is not looked at;
\* only the paths without a separator are kept
get_accessible_categories_with_children(T, user, include_children) ==
    LET all_categories == Names(T.grievance_types)
        Keep(category_name) == check_category_permission(T, user, category_name)
    IN IF T.processed_categories.keys = <<>> THEN all_categories
       ELSE SelectSeq(all_categories, Keep)

get_accessible_categories_roots(T, user, include_children) ==
    LET all_categories == Names(T.grievance_types)
        Keep(category_name) ==
            /\ check_category_permission(T, user, category_name)
            /\ ~HasPipe(category_name)
    IN IF T.processed_categories.keys = <<>> THEN all_categories
       ELSE SelectSeq(all_categories, Keep)

get_accessible_categories(T, user, include_children) ==
    LET all_categories == Names(T.grievance_types)
        Keep(category_name) ==
            /\ check_category_permission(T, user, category_name)
            /\ (include_children \/ ~HasPipe(category_name))
    IN IF T.processed_categories.keys = <<>> THEN all_categories
       ELSE SelectSeq(all_categories, Keep)

\* mutant of get_accessible_flags: the flat list is filtered even when no flag
\* is configured
get_accessible_flags_filtered(T, user) ==
    LET all_flags == Names(T.grievance_flags)
        Keep(flag_name) == check_flag_permission(T, user, flag_name)
    IN SelectSeq(all_flags, Keep)

get_accessible_flags(T, user) ==
    LET all_flags == Names(T.grievance_flags)
        Keep(flag_name) == check_flag_permission(T, user, flag_name)
    IN IF T.processed_flags.keys = <<>> THEN all_flags
       ELSE SelectSeq(all_flags, Keep)

\* mutant of get_category_hierarchy: the roots are listed without asking
\* check_category_permission
get_category_hierarchy_all_roots(T, user) ==
    LET processed_categories == T.processed_categories
        info(k) == processed_categories.val[k]
        IsRoot(k) == ~Truthy(DictGet(info(k), "parent", None))
        ChildDict(k) == [name |-> SplitLast(k),
                         full_name |-> k,
                         priority |-> DictGet(info(k), "priority", "Medium"),
                         permissions |-> DictGet(info(k), "permissions", <<>>),
                         default_flags |-> DictGet(info(k), "default_flags", <<>>)]
        Children(root) ==
            LET IsChild(k) == /\ DictGet(info(k), "parent", None) = root
                              /\ check_category_permission(T, user, k)
                kept == SelectSeq(processed_categories.keys, IsChild)
            IN [i \in 1..Len(kept) |-> ChildDict(kept[i])]
        roots == SelectSeq(processed_categories.keys, IsRoot)
    IN IF processed_categories.keys = <<>>
       THEN [i \in 1..Len(T.grievance_types) |->
                [name |-> T.grievance_types[i].str, children |-> <<>>]]
       ELSE [i \in 1..Len(roots) |->
                [name |-> roots[i],
                 priority |-> DictGet(info(roots[i]), "priority", "Medium"),
                 permissions |-> DictGet(info(roots[i]), "permissions", <<>>),
                 default_flags |-> DictGet(info(roots[i]), "default_flags", <<>>),
                 children |-> Children(roots[i])]]

\* mutant of get_category_hierarchy: the children are listed without asking
\* check_category_permission
get_category_hierarchy_all_children(T, user) ==
    LET processed_categories == T.processed_categories
        info(k) == processed_categories.val[k]
        IsRoot(k) == /\ ~Truthy(DictGet(info(k), "parent", None))
                     /\ check_category_permission(T, user, k)
        ChildDict(k) == [name |-> SplitLast(k),
                         full_name |-> k,
                         priority |-> DictGet(info(k), "priority", "Medium"),
                         permissions |-> DictGet(info(k), "permissions", <<>>),
                         default_flags |-> DictGet(info(k), "default_flags", <<>>)]
        Children(root) ==
            LET IsChild(k) == DictGet(info(k), "parent", None) = root
                kept == SelectSeq(processed_categories.keys, IsChild)
            IN [i \in 1..Len(kept) |-> ChildDict(kept[i])]
        roots == SelectSeq(processed_categories.keys, IsRoot)
    IN IF processed_categories.keys = <<>>
       THEN [i \in 1..Len(T.grievance_types) |->
                [name |-> T.grievance_types[i].str, children |-> <<>>]]
       ELSE [i \in 1..Len(roots) |->
                [name |-> roots[i],
                 priority |-> DictGet(info(roots[i]), "priority", "Medium"),
                 permissions |-> DictGet(info(roots[i]), "permissions", <<>>),
                 default_flags |-> DictGet(info(roots[i]), "default_flags", <<>>),
                 children |-> Children(roots[i])]]

get_category_hierarchy(T, user) ==
    LET processed_categories == T.processed_categories
        info(k) == processed_categories.val[k]
        IsRoot(k) == /\ ~Truthy(DictGet(info(k), "parent", None))
                     /\ check_category_permission(T, user, k)
        ChildDict(k) == [name |-> SplitLast(k),
                         full_name |-> k,
                         priority |-> DictGet(info(k), "priority", "Medium"),
                         permissions |-> DictGet(info(k), "permissions", <<>>),
                         default_flags |-> DictGet(info(k), "default_flags", <<>>)]
        Children(root) ==
            LET IsChild(k) == /\ DictGet(info(k), "parent", None) = root
                              /\ check_category_permission(T, user, k)
                kept == SelectSeq(processed_categories.keys, IsChild)
            IN [i \in 1..Len(kept) |-> ChildDict(kept[i])]
        roots == SelectSeq(processed_categories.keys, IsRoot)
    IN IF processed_categories.keys = <<>>
       THEN [i \in 1..Len(T.grievance_types) |->
                [name |-> T.grievance_types[i].str, children |-> <<>>]]
       ELSE [i \in 1..Len(roots) |->
                [name |-> roots[i],
                 priority |-> DictGet(info(roots[i]), "priority", "Medium"),
                 permissions |-> DictGet(info(roots[i]), "permissions", <<>>),
                 default_flags |-> DictGet(info(roots[i]), "default_flags", <<>>),
                 children |-> Children(roots[i])]]

\* a flags argument is None, a str or a list of str
NoFlags == [None |-> TRUE]
FlagStr(s) == [str |-> s]
FlagList(l) == [list |-> l]

\* `if flags:` and then flags.split() or the list itself
flag_list_of(flags) ==
    IF flags = NoFlags THEN <<>>
    ELSE IF IsStr(flags) THEN Split(flags.str)
    ELSE flags.list

Returned == [raised |-> FALSE]
PermissionDenied(what, name) == [raised |-> TRUE, what |-> what, name |-> name]

\* mutants of validate_ticket_access: the flags are checked before the
\* category; the category is checked even when none is given
validate_ticket_access_flags_first(T, user, category, flags) ==
    LET flag_list == flag_list_of(flags)
        denied == {i \in 1..Len(flag_list) :
                      Truthy(flag_list[i]) /\ ~check_flag_permission(T, user, flag_list[i])}
    IN IF denied # {}
       THEN PermissionDenied("flag", flag_list[CHOOSE i \in denied : \A j \in denied : i <= j])
       ELSE IF Truthy(category) /\ ~check_category_permission(T, user, category)
       THEN PermissionDenied("category", category)
       ELSE Returned

validate_ticket_access_always(T, user, category, flags) ==
    IF ~check_category_permission(T, user, category)
    THEN PermissionDenied("category", category)
    ELSE
    LET flag_list == flag_list_of(flags)
        denied == {i \in 1..Len(flag_list) :
                      Truthy(flag_list[i]) /\ ~check_flag_permission(T, user, flag_list[i])}
    IN IF denied = {} THEN Returned
       ELSE PermissionDenied("flag", flag_list[CHOOSE i \in denied : \A j \in denied : i <= j])

validate_ticket_access(T, user, category, flags) ==
    IF Truthy(category) /\ ~check_category_permission(T, user, category)
    THEN PermissionDenied("category", category)
    ELSE
    LET flag_list == flag_list_of(flags)
        denied == {i \in 1..Len(flag_list) :
                      Truthy(flag_list[i]) /\ ~check_flag_permission(T, user, flag_list[i])}
    IN IF denied = {} THEN Returned
       ELSE PermissionDenied("flag", flag_list[CHOOSE i \in denied : \A j \in denied : i <= j])

get_category_defaults(T, category_name) ==
    LET processed_categories == T.processed_categories IN
    IF processed_categories.keys = <<>> \/ category_name \notin DOMAIN processed_categories.val
    THEN [priority |-> "Medium", default_flags |-> <<>>]
    ELSE [priority |-> DictGet(processed_categories.val[category_name], "priority", "Medium"),
          default_flags |-> DictGet(processed_categories.val[category_name], "default_flags", <<>>)]

priorities == <<"Low", "Medium", "High", "Critical">>

\* priorities.index(p)
PriorityIndex(p) == CHOOSE i \in 1..Len(priorities) : priorities[i] = p

RECURSIVE flag_priorities_from(_, _, _, _)
\* the loop over flag_list from its i-th element on, max_priority so far
flag_priorities_from(T, flag_list, i, max_priority) ==
    IF i > Len(flag_list) THEN max_priority
    ELSE
    LET flag_name == flag_list[i]
        known == T.processed_flags.keys # <<>> /\ flag_name \in DOMAIN T.processed_flags.val
        flag_priority == DictGet(T.processed_flags.val[flag_name], "priority", "Medium")
    IN flag_priorities_from(T, flag_list, i + 1,
           IF known /\ PriorityIndex(flag_priority) > PriorityIndex(max_priority)
           THEN flag_priority ELSE max_priority)

get_effective_priority(T, category_name, flag_names) ==
    LET processed_categories == T.processed_categories
        known == /\ processed_categories.keys # <<>>
                 /\ category_name \in DOMAIN processed_categories.val
        cat_priority == DictGet(processed_categories.val[category_name], "priority", "Medium")
        max_priority == IF known /\ PriorityIndex(cat_priority) > PriorityIndex("Medium")
                        THEN cat_priority ELSE "Medium"
    IN flag_priorities_from(T, flag_list_of(flag_names), 1, max_priority)

\* mutant of restricted_flags: the flags the user is granted are the ones excluded
restricted_flags_granted(T, user) ==
    {flag_name \in DOMAIN T.processed_flags.val :
        /\ DictGet(T.processed_flags.val[flag_name], "permissions", <<>>) # <<>>
        /\ check_flag_permission(T, user, flag_name)}

\* the names of the flags the queryset filter excludes for the user
restricted_flags(T, user) ==
    {flag_name \in DOMAIN T.processed_flags.val :
        /\ DictGet(T.processed_flags.val[flag_name], "permissions", <<>>) # <<>>
        /\ ~check_flag_permission(T, user, flag_name)}

\* mutant of filter_ticket_queryset: a ticket of a category that is not
\* configured passes the category step
filter_ticket_queryset_open(T, queryset, user) ==
    LET accessible_categories == get_accessible_categories(T, user, TRUE)
        by_category == IF T.processed_categories.keys # <<>>
                       THEN {t \in queryset :
                                \/ t.category \in Range(accessible_categories)
                                \/ t.category \notin DOMAIN T.processed_categories.val}
                       ELSE queryset
    IN IF T.processed_flags.keys # <<>>
       THEN {t \in by_category :
                \A flag \in restricted_flags(T, user) : ~IContains(t.flags, flag)}
       ELSE by_category

\* mutant of filter_ticket_queryset: a ticket is excluded when one of the
\* whitespace-separated tokens of its flags is a restricted flag
filter_ticket_queryset_by_token(T, queryset, user) ==
    LET accessible_categories == get_accessible_categories(T, user, TRUE)
        by_category == IF T.processed_categories.keys # <<>>
                       THEN {t \in queryset : t.category \in Range(accessible_categories)}
                       ELSE queryset
    IN IF T.processed_flags.keys # <<>>
       THEN {t \in by_category :
                t.flags = None \/ Range(Split(t.flags)) \cap restricted_flags(T, user) = {}}
       ELSE by_category

\* mutant of filter_ticket_queryset: the category__in filter is left out
filter_ticket_queryset_flags_only(T, queryset, user) ==
    IF T.processed_flags.keys # <<>>
    THEN {t \in queryset :
             \A flag \in restricted_flags(T, user) : ~IContains(t.flags, flag)}
    ELSE queryset

\* mutant of filter_ticket_queryset: the category__in filter is applied even
\* when no category is configured
filter_ticket_queryset_always(T, queryset, user) ==
    LET accessible_categories == get_accessible_categories(T, user, TRUE)
        by_category == {t \in queryset : t.category \in Range(accessible_categories)}
    IN IF T.processed_flags.keys # <<>>
       THEN {t \in by_category :
                \A flag \in restricted_flags(T, user) : ~IContains(t.flags, flag)}
       ELSE by_category

\* a queryset is the set of its tickets
filter_ticket_queryset(T, queryset, user) ==
    LET accessible_categories == get_accessible_categories(T, user, TRUE)
        by_category == IF T.processed_categories.keys # <<>>
                       THEN {t \in queryset : t.category \in Range(accessible_categories)}
                       ELSE queryset
    IN IF T.processed_flags.keys # <<>>
       THEN {t \in by_category :
                \A flag \in restricted_flags(T, user) : ~IContains(t.flags, flag)}
       ELSE by_category

----------------------------------------------------------------------------
(* apps.py: TicketConfig.ready, step by step on cfg and TicketConfig *)

\* the attributes TicketConfig is declared with (apps.py:151-164)
ClassDefaults ==
    [grievance_types |-> <<>>,
     grievance_flags |-> <<>>,
     resolution_times |-> EmptyMap,
     default_resolution |-> EmptyMap,
     processed_categories |-> EmptyDict,
     processed_flags |-> EmptyDict,
     unified_resolution_times |-> EmptyMap]

\* mutant of cfg_after_categories: grievance_types is left as it was given
cfg_after_categories_keeps_list(c) ==
    MapPut(c, "processed_categories", process_unified_categories(c).processed_categories)

\* cfg after __process_unified_categories (apps.py:347-350)
cfg_after_categories(c) ==
    LET st == process_unified_categories(c)
    IN MapPut(MapPut(c, "processed_categories", st.processed_categories),
              "grievance_types", st.flat_types)

\* cfg after __process_unified_flags (apps.py:387-390)
cfg_after_flags(c) ==
    LET st == process_unified_flags(c)
    IN MapPut(MapPut(c, "processed_flags", st.processed_flags),
              "grievance_flags", st.flat_flags)

\* cfg after __validate_grievance_default_resolution_time: the legacy map is
\* rewritten in place, the unified map is stored
cfg_after_resolution(c) ==
    LET c1 == IF "default_resolution" \in DOMAIN c
              THEN MapPut(c, "default_resolution", legacy_resolution(c)) ELSE c
    IN MapPut(c1, "unified_resolution_times", unified_resolution(c))

\* TicketConfig after a complete ready() on configuration c, starting from T
Snapshot(c, T) ==
    load_config(cfg_after_resolution(cfg_after_flags(cfg_after_categories(c))), T)

\* no call of GrievanceAccessControl is under way: calls are synchronous, a
\* step of ready() falls between two calls
Idle == ret = [op |-> "none"]

ProcessUnifiedCategories ==
    /\ pc = "start"
    /\ Idle
    /\ cfg' = cfg_after_categories(cfg)
    /\ tc' = [tc EXCEPT !.processed_categories = process_unified_categories(cfg).processed_categories]
    /\ pc' = "categories"
    /\ UNCHANGED <<raw, ret>>

ProcessUnifiedFlags ==
    /\ pc = "categories"
    /\ Idle
    /\ cfg' = cfg_after_flags(cfg)
    /\ tc' = [tc EXCEPT !.processed_flags = process_unified_flags(cfg).processed_flags]
    /\ pc' = "flags"
    /\ UNCHANGED <<raw, ret>>

\* the three calls of __validate_grievance_dict_fields only log
ValidateGrievanceDictFields ==
    /\ pc = "flags"
    /\ Idle
    /\ pc' = "validated"
    /\ UNCHANGED <<raw, cfg, tc, ret>>

ValidateGrievanceDefaultResolutionTime ==
    /\ pc = "validated"
    /\ Idle
    /\ cfg' = cfg_after_resolution(cfg)
    /\ pc' = "reconciled"
    /\ UNCHANGED <<raw, tc, ret>>

LoadConfig ==
    /\ pc = "reconciled"
    /\ Idle
    /\ tc' = load_config(cfg, tc)
    /\ pc' = "loaded"
    /\ UNCHANGED <<raw, cfg, ret>>

Ready ==
    \/ ProcessUnifiedCategories
    \/ ProcessUnifiedFlags
    \/ ValidateGrievanceDictFields
    \/ ValidateGrievanceDefaultResolutionTime
    \/ LoadConfig

----------------------------------------------------------------------------
(* The configurations and the arguments of the calls *)

MaxFlags == 2      \* flags given to one call
MaxTickets == 2    \* tickets of one queryset
MaxDepth == 3      \* nesting depth of the generated category forests
MaxParts == 3      \* comma-separated pieces of one SLA string

Perms == {"127000", "127001", "127002"}

simple_category == <<"a">>
complaint == <<"c">>
service_complaint == <<"b">>
restricted_category == <<"r">>
unknown_category == <<"z">>
urgent == <<"u">>
sensitive == <<"s">>
confidential == <<"t">>

\* the configuration of tests/test_access_control.py
TestTypes ==
    << Str(simple_category),
       [name |-> complaint, priority |-> "High",
        permissions |-> <<"127000", "127001">>, default_flags |-> <<urgent>>,
        children |-> << [name |-> service_complaint, permissions |-> <<"127002">>] >>],
       [name |-> restricted_category, priority |-> "Critical",
        permissions |-> <<"127002">>, default_flags |-> <<sensitive>>] >>

TestFlags ==
    << [name |-> urgent, priority |-> "High"],
       [name |-> sensitive, priority |-> "Critical", permissions |-> <<"127001", "127002">>],
       [name |-> confidential, priority |-> "Low", permissions |-> <<"127000">>] >>

\* test_parent_visible_child_restricted_permissions
MixedTypes ==
    << [name |-> complaint, priority |-> "Medium", permissions |-> <<"127000">>,
        children |-> << [name |-> simple_category],
                        [name |-> restricted_category, priority |-> "High",
                         permissions |-> <<"127002">>],
                        Str(service_complaint) >>] >>

\* three levels, a Low root with an SLA of its own, a leaf with one out of range
DeepTypes ==
    << [name |-> complaint, priority |-> "Low", permissions |-> <<"127001">>,
        resolution_times |-> <<"2", ",", "0">>,
        children |-> << [name |-> simple_category,
                         children |-> << Str(service_complaint),
                                         [name |-> restricted_category, priority |-> "Critical",
                                          permissions |-> <<>>,
                                          resolution_times |-> <<"9", "9", ",", "0">>] >>] >>],
       Str(restricted_category) >>

\* a dict without a name, a name with the separator in it, a name given twice
OddTypes ==
    << [permissions |-> <<"127000">>, children |-> <<Str(simple_category)>>],
       Str(Join(complaint, service_complaint)),
       [name |-> complaint, permissions |-> <<"127000">>,
        children |-> <<Str(service_complaint)>>],
       Str(complaint) >>

\* plain names only, as in DEFAULT_CFG
LegacyTypes == << Str(simple_category), Str(complaint) >>

LegacyFlags == << Str(urgent), Str(<<"S">>) >>

OddFlags ==
    << [priority |-> "High", permissions |-> <<"127000">>],
       [name |-> sensitive, permissions |-> <<"127002">>],
       Str(sensitive \o urgent) >>

LegacyResolution ==
    [k \in {simple_category, complaint, Join(complaint, service_complaint),
            restricted_category} |->
        IF k = simple_category THEN <<"3", ",", "0">>
        ELSE IF k = complaint THEN <<>>
        ELSE IF k = restricted_category THEN None
        ELSE <<"a", "b", "c">>]

RawConfigs ==
    { [grievance_types |-> TestTypes, grievance_flags |-> TestFlags],
      [grievance_types |-> MixedTypes, grievance_flags |-> TestFlags,
       default_resolution |-> LegacyResolution, resolution_times |-> <<"4", ",", "0">>],
      [grievance_types |-> DeepTypes, grievance_flags |-> LegacyFlags,
       default_resolution |-> LegacyResolution],
      [grievance_types |-> OddTypes, grievance_flags |-> OddFlags],
      [grievance_types |-> LegacyTypes, grievance_flags |-> LegacyFlags,
       default_resolution |-> LegacyResolution],
      [grievance_types |-> <<>>, grievance_flags |-> TestFlags],
      [grievance_types |-> TestTypes, grievance_flags |-> <<>>],
      [resolution_times |-> DEFAULT_TIME_RESOLUTION] }

\* the attributes a generated dict entry gives: none; all four; some, with an
\* empty permissions list and an empty SLA; some, with other permissions and
\* an SLA out of range
AttrChoices ==
    { EmptyMap,
      [priority |-> "High", permissions |-> <<"127000", "127001">>,
       default_flags |-> <<urgent>>, resolution_times |-> <<"2", ",", "0">>],
      [priority |-> "Low", permissions |-> <<>>, resolution_times |-> <<>>],
      [permissions |-> <<"127002">>, default_flags |-> <<sensitive>>,
       resolution_times |-> <<"9", "9", ",", "0">>] }

RECURSIVE Entries(_)
RECURSIVE ChildLists(_)

\* the category entries nested at most d deep: a plain name, a dict named
\* complaint, a dict without a name; a dict has a list of children
Entries(d) ==
    {Str(simple_category), Str(complaint)}
    \cup {attrs @@ named @@ children :
            attrs \in AttrChoices,
            named \in {[name |-> complaint]},
            children \in IF d = 1 THEN {EmptyMap}
                         ELSE {[children |-> l] : l \in ChildLists(d - 1)}}
    \cup {[priority |-> "Critical", permissions |-> <<"127000">>] @@ children :
            children \in IF d = 1 THEN {EmptyMap}
                         ELSE {[children |-> l] : l \in ChildLists(d - 1)}}

\* no entry, one entry, or one entry followed by the plain name complaint
ChildLists(d) ==
    {<<>>}
    \cup {<<e>> : e \in Entries(d)}
    \cup {<<e, Str(complaint)>> : e \in Entries(d)}

NormResolution ==
    [k \in {simple_category, complaint, Join(complaint, simple_category), unknown_category} |->
        IF k = simple_category THEN <<"3", ",", "0">>
        ELSE IF k = complaint THEN <<"7", ",", "0">>
        ELSE IF k = unknown_category THEN <<"a", "b", "c">>
        ELSE <<>>]

NormConfigs ==
    {[grievance_types |-> l, grievance_flags |-> OddFlags, default_resolution |-> NormResolution] :
        l \in ChildLists(MaxDepth)}

\* TicketConfig when ready() starts: as declared, or as an earlier load left it
InitialTicketConfigs ==
    { ClassDefaults,
      Snapshot([grievance_types |-> TestTypes, grievance_flags |-> TestFlags], ClassDefaults) }

\* absent, anonymous (whatever has_perm would say), or authenticated
Users ==
    {NoUser}
    \cup {[is_anonymous |-> TRUE, perms |-> P] : P \in {{}, Perms}}
    \cup {[is_anonymous |-> FALSE, perms |-> P] : P \in SUBSET Perms}

IsAnonymous(user) == user = NoUser \/ user.is_anonymous

\* every category path and flag name of the configurations, and unknown ones
CategoryNames ==
    UNION {DOMAIN process_unified_categories(c).processed_categories.val : c \in RawConfigs}
    \cup {unknown_category, <<>>}

FlagNames ==
    UNION {DOMAIN process_unified_flags(c).processed_flags.val : c \in RawConfigs}
    \cup {<<"x">>, <<>>}

RECURSIVE SeqsUpTo(_, _)
\* the sequences over S of length at most n
SeqsUpTo(S, n) ==
    IF n = 0 THEN {<<>>}
    ELSE LET shorter == SeqsUpTo(S, n - 1)
         IN shorter \cup {Append(s, x) : s \in shorter, x \in S}

RECURSIVE JoinWith(_, _)
\* sep.join(l)
JoinWith(sep, l) ==
    IF l = <<>> THEN <<>>
    ELSE IF Len(l) = 1 THEN l[1]
    ELSE l[1] \o sep \o JoinWith(sep, Tail(l))

\* the pieces an SLA string is made of: in range, on and over the limits,
\* empty, not a number, signed, with a blank
SLAParts ==
    { <<>>, <<"0">>, <<"5">>, <<"2", "3">>, <<"2", "4">>, <<"9", "8">>, <<"9", "9">>,
      <<"a", "b", "c">>, <<"-", "1">>, <<" ", "5">>, <<"+", "5">> }

SLAInputs == {JoinWith(<<",">>, parts) : parts \in SeqsUpTo(SLAParts, MaxParts) \ {<<>>}}

FlagTokens == {sensitive, confidential, urgent}

\* the ways to pass the tokens l as a flags argument: the list itself, a text
\* with single blanks, a text with leading and doubled blanks, None for no token
FlagsForms(l) ==
    {FlagList(l)}
    \cup (IF <<>> \in Range(l) THEN {}
          ELSE {FlagStr(JoinWith(<<" ">>, l)),
                FlagStr(<<" ">> \o JoinWith(<<" ", " ">>, l))})
    \cup (IF l = <<>> THEN {NoFlags} ELSE {})

TokenLists == SeqsUpTo(FlagTokens \cup {<<>>}, MaxFlags)

\* the forms of every token list, tabulated
FormsOf == [l \in TokenLists |-> FlagsForms(l)]

FlagsArgs == UNION {FormsOf[l] : l \in TokenLists}

\* the token lists an argument is a form of, tabulated
ListsOf == [f \in FlagsArgs |-> {l \in TokenLists : f \in FormsOf[l]}]

CategoryArgs ==
    {None, <<>>, simple_category, complaint, Join(complaint, service_complaint), unknown_category}

TicketPool ==
    { [category |-> simple_category, flags |-> urgent],
      [category |-> complaint, flags |-> <<"u", " ", "s">>],
      [category |-> Join(complaint, service_complaint), flags |-> None],
      [category |-> simple_category, flags |-> <<"s", "u">>],
      [category |-> unknown_category, flags |-> <<>>],
      [category |-> restricted_category, flags |-> <<"T">>] }

Querysets == {q \in SUBSET TicketPool : Cardinality(q) <= MaxTickets}

----------------------------------------------------------------------------
(* The calls of GrievanceAccessControl, at any moment of ready() *)

CheckCategoryPermission ==
    /\ Idle
    /\ \E user \in Users, category_name \in CategoryNames :
        ret' = [op |-> "check_category_permission", user |-> user,
               category_name |-> category_name,
               result |-> check_category_permission(tc, user, category_name)]
    /\ UNCHANGED <<raw, cfg, tc, pc>>

CheckFlagPermission ==
    /\ Idle
    /\ \E user \in Users, flag_name \in FlagNames :
        ret' = [op |-> "check_flag_permission", user |-> user,
               flag_name |-> flag_name,
               result |-> check_flag_permission(tc, user, flag_name)]
    /\ UNCHANGED <<raw, cfg, tc, pc>>

GetAccessibleCategories ==
    /\ Idle
    /\ \E user \in Users, include_children \in BOOLEAN :
        ret' = [op |-> "get_accessible_categories", user |-> user,
               include_children |-> include_children,
               result |-> get_accessible_categories(tc, user, include_children)]
    /\ UNCHANGED <<raw, cfg, tc, pc>>

GetAccessibleFlags ==
    /\ Idle
    /\ \E user \in Users :
        ret' = [op |-> "get_accessible_flags", user |-> user,
               result |-> get_accessible_flags(tc, user)]
    /\ UNCHANGED <<raw, cfg, tc, pc>>

GetCategoryHierarchy ==
    /\ Idle
    /\ \E user \in Users :
        ret' = [op |-> "get_category_hierarchy", user |-> user,
               result |-> get_category_hierarchy(tc, user)]
    /\ UNCHANGED <<raw, cfg, tc, pc>>

ValidateTicketAccess ==
    /\ Idle
    /\ \E user \in Users, category \in CategoryArgs, flags \in FlagsArgs :
        ret' = [op |-> "validate_ticket_access", user |-> user,
               category |-> category, flags |-> flags,
               result |-> validate_ticket_access(tc, user, category, flags)]
    /\ UNCHANGED <<raw, cfg, tc, pc>>

GetCategoryDefaults ==
    /\ Idle
    /\ \E category_name \in CategoryNames :
        ret' = [op |-> "get_category_defaults", category_name |-> category_name,
               result |-> get_category_defaults(tc, category_name)]
    /\ UNCHANGED <<raw, cfg, tc, pc>>

GetEffectivePriority ==
    /\ Idle
    /\ \E category_name \in CategoryNames, flag_names \in FlagsArgs :
        ret' = [op |-> "get_effective_priority", category_name |-> category_name,
               flag_names |-> flag_names,
               result |-> get_effective_priority(tc, category_name, flag_names)]
    /\ UNCHANGED <<raw, cfg, tc, pc>>

FilterTicketQueryset ==
    /\ Idle
    /\ \E user \in Users, queryset \in Querysets :
        ret' = [op |-> "filter_ticket_queryset", user |-> user,
               queryset |-> queryset,
               result |-> filter_ticket_queryset(tc, queryset, user)]
    /\ UNCHANGED <<raw, cfg, tc, pc>>

\* the caller takes the result
Return ==
    /\ ~Idle
    /\ ret' = [op |-> "none"]
    /\ UNCHANGED <<raw, cfg, tc, pc>>

Init ==
    /\ raw \in RawConfigs
    /\ cfg = raw
    /\ tc \in InitialTicketConfigs
    /\ pc = "start"
    /\ ret = [op |-> "none"]

Next ==
    \/ ProcessUnifiedCategories
    \/ ProcessUnifiedFlags
    \/ ValidateGrievanceDictFields
    \/ ValidateGrievanceDefaultResolutionTime
    \/ LoadConfig
    \/ CheckCategoryPermission
    \/ CheckFlagPermission
    \/ GetAccessibleCategories
    \/ GetAccessibleFlags
    \/ GetCategoryHierarchy
    \/ ValidateTicketAccess
    \/ GetCategoryDefaults
    \/ GetEffectivePriority
    \/ FilterTicketQueryset
    \/ Return

Spec == Init /\ [][Next]_vars

\* ready() alone, on the generated configurations
InitNorm ==
    /\ raw \in NormConfigs
    /\ cfg = raw
    /\ tc = ClassDefaults
    /\ pc = "start"
    /\ ret = [op |-> "none"]

NextNorm ==
    \/ ProcessUnifiedCategories
    \/ ProcessUnifiedFlags
    \/ ValidateGrievanceDictFields
    \/ ValidateGrievanceDefaultResolutionTime
    \/ LoadConfig

SpecNorm == InitNorm /\ [][NextNorm]_vars

\* __process_unified_categories called once more on the cfg it has rewritten
ProcessUnifiedCategoriesAgain ==
    /\ pc = "categories"
    /\ Idle
    /\ cfg' = cfg_after_categories(cfg)
    /\ tc' = [tc EXCEPT !.processed_categories = process_unified_categories(cfg).processed_categories]
    /\ pc' = "categories_again"
    /\ UNCHANGED <<raw, ret>>

NextAgain ==
    \/ ProcessUnifiedCategories
    \/ ProcessUnifiedCategoriesAgain

\* the category normaliser alone, run once and then a second time
SpecAgain == InitNorm /\ [][NextAgain]_vars

\* __validate_resolution_time_format alone, on one SLA string: raw is the value
ValidateResolutionTimeFormat ==
    /\ Idle
    /\ ret' = [op |-> "validate_resolution_time_format", value |-> raw,
               result |-> validate_resolution_time_format(raw)]
    /\ UNCHANGED <<raw, cfg, tc, pc>>

InitFormat ==
    /\ raw \in SLAInputs
    /\ cfg = raw
    /\ tc = ClassDefaults
    /\ pc = "start"
    /\ ret = [op |-> "none"]

NextFormat ==
    \/ ValidateResolutionTimeFormat
    \/ Return

SpecFormat == InitFormat /\ [][NextFormat]_vars

----------------------------------------------------------------------------
(* Properties of the evaluator *)

Known(category_name) == category_name \in DOMAIN tc.processed_categories.val
KnownFlag(flag_name) == flag_name \in DOMAIN tc.processed_flags.val
CategoryPermissions(category_name) == tc.processed_categories.val[category_name].permissions
FlagPermissions(flag_name) == tc.processed_flags.val[flag_name].permissions
Holds(user, permissions) == \E i \in 1..Len(permissions) : permissions[i] \in user.perms

\* C1: check_category_permission and check_flag_permission return False for
\* an absent or anonymous principal, for every name and in every state of the
\* configuration (unknown name, node without permissions, empty maps).
C1_AnonymousDenied ==
    /\ (ret.op = "check_category_permission" /\ IsAnonymous(ret.user)) => ret.result = FALSE
    /\ (ret.op = "check_flag_permission" /\ IsAnonymous(ret.user)) => ret.result = FALSE

\* an anonymous principal whose has_perm grants everything asks for a flag
\* while no flag is configured
C1_Witness ==
    /\ ret.op = "check_flag_permission"
    /\ ret.user = [is_anonymous |-> TRUE, perms |-> Perms]
    /\ tc.processed_flags.keys = <<>>
    /\ ret.result = FALSE

\* C2: for an authenticated principal and a known category with a non-empty
\* permissions list the result is True iff the principal holds at least one
\* code of the node's own list; codes found only in the parent's list do not
\* open a child that overrides permissions.
C2_AnyOwnPermission ==
    (/\ ret.op = "check_category_permission"
     /\ ~IsAnonymous(ret.user)
     /\ Known(ret.category_name)
     /\ CategoryPermissions(ret.category_name) # <<>>)
    => /\ ret.result = Holds(ret.user, CategoryPermissions(ret.category_name))
       /\ LET parent == tc.processed_categories.val[ret.category_name].parent
          IN (/\ Truthy(parent)
              /\ Known(parent)
              /\ Holds(ret.user, CategoryPermissions(parent))
              /\ ~Holds(ret.user, CategoryPermissions(ret.category_name)))
             => ret.result = FALSE

\* the principal holding only 127000 is denied on complaint|service_complaint
\* (127002) while complaint asks for 127000 or 127001
C2_Witness ==
    /\ ret.op = "check_category_permission"
    /\ ret.user = [is_anonymous |-> FALSE, perms |-> {"127000"}]
    /\ ret.category_name = Join(complaint, service_complaint)
    /\ Known(ret.category_name)
    /\ Known(complaint)
    /\ CategoryPermissions(ret.category_name) = <<"127002">>
    /\ CategoryPermissions(complaint) = <<"127000", "127001">>
    /\ check_category_permission(tc, ret.user, complaint)
    /\ ret.result = FALSE

\* C3: a known category or flag with an empty permissions list is open to
\* every authenticated principal and closed to an anonymous or absent one.
C3_EmptyPermissionsOpen ==
    /\ (/\ ret.op = "check_category_permission"
        /\ Known(ret.category_name)
        /\ CategoryPermissions(ret.category_name) = <<>>)
       => ret.result = ~IsAnonymous(ret.user)
    /\ (/\ ret.op = "check_flag_permission"
        /\ KnownFlag(ret.flag_name)
        /\ FlagPermissions(ret.flag_name) = <<>>)
       => ret.result = ~IsAnonymous(ret.user)

\* a principal without any permission is let into a category without permissions
C3_Witness ==
    /\ ret.op = "check_category_permission"
    /\ ret.user = [is_anonymous |-> FALSE, perms |-> {}]
    /\ Known(ret.category_name)
    /\ CategoryPermissions(ret.category_name) = <<>>
    /\ ret.result = TRUE

\* C4: open by default: for an authenticated principal every category name
\* that is not a key of processed_categories and every flag name that is not
\* a key of processed_flags is allowed, whatever the principal holds.
C4_UnknownOpen ==
    /\ (/\ ret.op = "check_category_permission"
        /\ ~IsAnonymous(ret.user)
        /\ ~Known(ret.category_name))
       => ret.result = TRUE
    /\ (/\ ret.op = "check_flag_permission"
        /\ ~IsAnonymous(ret.user)
        /\ ~KnownFlag(ret.flag_name))
       => ret.result = TRUE

\* flags are configured, the name asked for is not among them, the principal holds nothing
C4_Witness ==
    /\ ret.op = "check_flag_permission"
    /\ ret.user = [is_anonymous |-> FALSE, perms |-> {}]
    /\ tc.processed_flags.keys # <<>>
    /\ ~KnownFlag(ret.flag_name)
    /\ ret.result = TRUE

\* what validate_ticket_access owes for the tokens l: the category first, then
\* the first non-empty token that is not authorized
ExpectedValidation(user, category, l) ==
    IF Truthy(category) /\ ~check_category_permission(tc, user, category)
    THEN PermissionDenied("category", category)
    ELSE LET denied == {i \in 1..Len(l) :
                           l[i] # <<>> /\ ~check_flag_permission(tc, user, l[i])}
         IN IF denied = {} THEN Returned
            ELSE PermissionDenied("flag", l[CHOOSE i \in denied : \A j \in denied : i <= j])

\* C6: validate_ticket_access raises for the category before any flag, then
\* for the first flag (of the text split on whitespace or of the sequence,
\* empty tokens ignored) that is not authorized, and returns exactly when the
\* category, if any, and every non-empty token are authorized.
C6_CategoryThenFirstFlag ==
    ret.op = "validate_ticket_access" =>
        \A l \in ListsOf[ret.flags] :
                ret.result = ExpectedValidation(ret.user, ret.category, l)

\* two denied flags in a text with irregular blanks, the category allowed:
\* the exception names the first one
C6_Witness ==
    /\ ret.op = "validate_ticket_access"
    /\ ret.user = [is_anonymous |-> FALSE, perms |-> {}]
    /\ ret.category = simple_category
    /\ ret.flags = FlagStr(<<" ", "t", " ", " ", "s">>)
    /\ ~check_flag_permission(tc, ret.user, sensitive)
    /\ ~check_flag_permission(tc, ret.user, confidential)
    /\ ret.result = PermissionDenied("flag", confidential)

\* C7: validate_ticket_access never raises when category and flags are both
\* absent or empty, for every principal; for an anonymous or absent principal
\* it raises as soon as the category is non-empty or a non-empty token is given.
C7_NothingGivenNothingDenied ==
    ret.op = "validate_ticket_access" =>
        /\ (ret.category \in {None, <<>>}
            /\ ret.flags \in {NoFlags, FlagStr(<<>>), FlagList(<<>>)})
           => ret.result = Returned
        /\ (IsAnonymous(ret.user)
            /\ (\/ Truthy(ret.category)
                \/ \E l \in ListsOf[ret.flags] :
                      \E i \in 1..Len(l) : l[i] # <<>>))
           => ret.result.raised

\* an absent principal gives no category and a flag nobody is refused: denied
C7_Witness ==
    /\ ret.op = "validate_ticket_access"
    /\ ret.user = NoUser
    /\ ret.category = None
    /\ ret.flags = FlagList(<<<<>>, urgent>>)
    /\ KnownFlag(urgent)
    /\ FlagPermissions(urgent) = <<>>
    /\ ret.result = PermissionDenied("flag", urgent)

\* the highest of a non-empty set of priorities
MaxPriority(S) == CHOOSE p \in S : \A q \in S : PriorityIndex(q) <= PriorityIndex(p)

\* the configured priorities of the tokens of l that are known flags
FlagPriorities(l) ==
    {tc.processed_flags.val[l[i]].priority : i \in {j \in 1..Len(l) : KnownFlag(l[j])}}

\* C8: get_effective_priority returns the maximum, under Low < Medium < High
\* < Critical, of the category's configured priority and the configured
\* priorities of the given flags that are known.
C8_MaxOfConfigured ==
    (ret.op = "get_effective_priority" /\ Known(ret.category_name)) =>
        \A l \in ListsOf[ret.flag_names] :
                ret.result = MaxPriority({tc.processed_categories.val[ret.category_name].priority}
                                         \cup FlagPriorities(l))

\* C9: with processed_categories non-empty every ticket that
\* filter_ticket_queryset returns has a category of
\* get_accessible_categories(user, True); so none has a known category that
\* check_category_permission refuses, and a principal without a parent's
\* permission sees neither the parent's tickets nor those of the children
\* that inherit it.
C9_OnlyAccessibleCategories ==
    (ret.op = "filter_ticket_queryset" /\ tc.processed_categories.keys # <<>>) =>
        /\ ret.result \subseteq ret.queryset
        /\ \A t \in ret.result :
            /\ t.category \in Range(get_accessible_categories(tc, ret.user, TRUE))
            /\ Known(t.category) => check_category_permission(tc, ret.user, t.category)
            /\ (Known(t.category) /\ CategoryPermissions(t.category) # <<>>)
               => Holds(ret.user, CategoryPermissions(t.category))
            /\ LET parent == IF Known(t.category)
                             THEN tc.processed_categories.val[t.category].parent ELSE None
               IN (Truthy(parent) /\ Known(parent)
                   /\ CategoryPermissions(t.category) = CategoryPermissions(parent))
                  => (CategoryPermissions(parent) = <<>>
                      \/ Holds(ret.user, CategoryPermissions(parent)))

\* the principal lacks the parent's 127000: the parent's ticket and the
\* ticket of the child that inherits 127000 are both gone
C9_Witness ==
    /\ ret.op = "filter_ticket_queryset"
    /\ ret.user = [is_anonymous |-> FALSE, perms |-> {"127002"}]
    /\ Known(complaint)
    /\ Known(Join(complaint, service_complaint))
    /\ tc.processed_categories.val[Join(complaint, service_complaint)].parent = complaint
    /\ CategoryPermissions(complaint) = <<"127000">>
    /\ CategoryPermissions(Join(complaint, service_complaint)) = <<"127000">>
    /\ pc = "loaded"
    /\ {complaint, Join(complaint, service_complaint)} \subseteq Range(Names(tc.grievance_types))
    /\ ret.queryset = {[category |-> complaint, flags |-> <<"u", " ", "s">>],
                       [category |-> Join(complaint, service_complaint), flags |-> None]}
    /\ ret.result = {}

\* a flag token the user may use: allowed by the evaluator, or configured
\* without permissions
TokenAllowed(user, token) ==
    \/ check_flag_permission(tc, user, token)
    \/ (KnownFlag(token) /\ FlagPermissions(token) = <<>>)

\* C10: with processed_flags non-empty filter_ticket_queryset returns no
\* ticket whose flags contain the name of a flag with permissions that the
\* user is refused, and it keeps every ticket whose category is accessible
\* and whose flags are all unrestricted or authorized for the user.
C10_RestrictedFlagsOnly ==
    (ret.op = "filter_ticket_queryset" /\ tc.processed_flags.keys # <<>>) =>
        /\ \A t \in ret.result :
              \A flag \in DOMAIN tc.processed_flags.val :
                  (/\ FlagPermissions(flag) # <<>>
                   /\ ~check_flag_permission(tc, ret.user, flag)
                   /\ t.flags # None)
                  => ~Contains(t.flags, flag)
        /\ \A t \in ret.queryset :
              (/\ t.category \in Range(get_accessible_categories(tc, ret.user, TRUE))
               /\ t.flags # None
               /\ \A token \in Range(Split(t.flags)) : TokenAllowed(ret.user, token))
              => t \in ret.result

----------------------------------------------------------------------------
(* Properties of the views and of the queryset filter *)

\* C11: with processed_categories and processed_flags both empty
\* filter_ticket_queryset returns exactly the tickets of its input, for every
\* principal and every collection.
C11_NoConfigurationNoFilter ==
    (/\ ret.op = "filter_ticket_queryset"
     /\ tc.processed_categories.keys = <<>>
     /\ tc.processed_flags.keys = <<>>)
    => ret.result = ret.queryset

\* an absent principal gets back both tickets, one of a category nobody knows
C11_Witness ==
    /\ ret.op = "filter_ticket_queryset"
    /\ tc.processed_categories.keys = <<>>
    /\ tc.processed_flags.keys = <<>>
    /\ ret.user = NoUser
    /\ ret.queryset = {[category |-> unknown_category, flags |-> <<>>],
                       [category |-> restricted_category, flags |-> <<"T">>]}
    /\ ret.result = ret.queryset

\* the paths of the flat list the principal is allowed, children or not
AllowedPaths(user, include_children) ==
    LET Keep(path) == /\ check_category_permission(tc, user, path)
                      /\ (include_children \/ ~HasPipe(path))
    IN SelectSeq(Names(tc.grievance_types), Keep)

\* C12: get_accessible_categories returns, in the order of the flat
\* grievance_types list, exactly the paths of that list that
\* check_category_permission allows and that are roots unless include_children,
\* for every principal and in every state of the configuration.
C12_ExactlyAllowedPaths ==
    ret.op = "get_accessible_categories" =>
        ret.result = AllowedPaths(ret.user, ret.include_children)

\* C12 as amended: that holds while processed_categories is non-empty; while it
\* is empty the whole flat list is returned, whoever asks and whatever
\* include_children says.
C12_ExactlyAllowedPathsWhenConfigured ==
    ret.op = "get_accessible_categories" =>
        ret.result = IF tc.processed_categories.keys # <<>>
                     THEN AllowedPaths(ret.user, ret.include_children)
                     ELSE Names(tc.grievance_types)

\* without children the principal holding 127000 gets complaint alone, though
\* complaint|a is allowed to that principal, and complaint|r is not
C12_Witness ==
    /\ ret.op = "get_accessible_categories"
    /\ pc = "loaded"
    /\ ret.user = [is_anonymous |-> FALSE, perms |-> {"127000"}]
    /\ ret.include_children = FALSE
    /\ Names(tc.grievance_types) = <<complaint, Join(complaint, simple_category),
                                     Join(complaint, restricted_category),
                                     Join(complaint, service_complaint)>>
    /\ check_category_permission(tc, ret.user, Join(complaint, simple_category))
    /\ ~check_category_permission(tc, ret.user, Join(complaint, restricted_category))
    /\ ret.result = <<complaint>>

\* the flags of the flat list the principal is allowed
AllowedFlags(user) ==
    LET Keep(flag_name) == check_flag_permission(tc, user, flag_name)
    IN SelectSeq(Names(tc.grievance_flags), Keep)

\* C13: with processed_categories empty get_accessible_categories returns the
\* whole flat grievance_types list, with processed_flags empty
\* get_accessible_flags returns the whole flat grievance_flags list, whoever
\* asks; with processed_flags non-empty get_accessible_flags returns the flags
\* of the flat list that check_flag_permission allows, in the list's order.
C13_BackwardCompatibility ==
    /\ (ret.op = "get_accessible_categories" /\ tc.processed_categories.keys = <<>>)
       => ret.result = Names(tc.grievance_types)
    /\ ret.op = "get_accessible_flags"
       => ret.result = IF tc.processed_flags.keys = <<>>
                       THEN Names(tc.grievance_flags)
                       ELSE AllowedFlags(ret.user)

\* no flag is configured, the flat list still names three: a principal
\* without any permission gets all three
C13_Witness ==
    /\ ret.op = "get_accessible_flags"
    /\ tc.processed_flags.keys = <<>>
    /\ ret.user = [is_anonymous |-> FALSE, perms |-> {}]
    /\ Len(tc.grievance_flags) = 3
    /\ ret.result = <<urgent, sensitive, confidential>>

\* the principal that is authenticated and holds every permission code
AllPermissions == [is_anonymous |-> FALSE, perms |-> Perms]

\* C14: once a raw configuration is normalised and loaded, the principal
\* holding every permission gets from get_accessible_categories(user, True)
\* the normaliser's whole flat grievance_types list and from
\* get_accessible_flags(user) its whole flat grievance_flags list, in order.
C14_RoundTrip ==
    (pc = "loaded" /\ ret.op \in {"get_accessible_categories", "get_accessible_flags"}
     /\ ret.user = AllPermissions)
    => /\ (ret.op = "get_accessible_categories" /\ ret.include_children)
          => ret.result = Names(process_unified_categories(raw).flat_types)
       /\ ret.op = "get_accessible_flags"
          => ret.result = Names(process_unified_flags(raw).flat_flags)

\* the five paths of the three-level configuration come back, the restricted
\* ones and the one at depth three included
C14_Witness ==
    /\ pc = "loaded"
    /\ ret.op = "get_accessible_categories"
    /\ ret.user = AllPermissions
    /\ ret.include_children
    /\ Known(Join(Join(complaint, simple_category), service_complaint))
    /\ CategoryPermissions(complaint) # <<>>
    /\ ret.result = <<complaint, Join(complaint, simple_category),
                      Join(Join(complaint, simple_category), service_complaint),
                      Join(Join(complaint, simple_category), restricted_category),
                      restricted_category>>

ParentOf(k) == tc.processed_categories.val[k].parent

\* the roots and the direct children of a root that the principal is allowed
AllowedRoots(user) ==
    {k \in DOMAIN tc.processed_categories.val :
        ~Truthy(ParentOf(k)) /\ check_category_permission(tc, user, k)}

AllowedChildren(user, root) ==
    {k \in DOMAIN tc.processed_categories.val :
        ParentOf(k) = root /\ check_category_permission(tc, user, k)}

\* the node is nested in a node that is itself nested
AtDepthThree(k) ==
    /\ Truthy(ParentOf(k))
    /\ Known(ParentOf(k))
    /\ Truthy(ParentOf(ParentOf(k)))

\* C15: with processed_categories non-empty get_category_hierarchy emits one
\* node for each allowed root and under it exactly its allowed direct
\* children, each with the last segment of its path as name and its path as
\* full_name; a node nested three deep or more is never emitted.
C15_PrunedTwoLevelTree ==
    (ret.op = "get_category_hierarchy" /\ tc.processed_categories.keys # <<>>) =>
        LET tree == ret.result IN
        /\ {tree[i].name : i \in 1..Len(tree)} = AllowedRoots(ret.user)
        /\ Len(tree) = Cardinality(AllowedRoots(ret.user))
        /\ \A i \in 1..Len(tree) :
              LET kids == tree[i].children
                  allowed == AllowedChildren(ret.user, tree[i].name)
              IN /\ {kids[j].full_name : j \in 1..Len(kids)} = allowed
                 /\ Len(kids) = Cardinality(allowed)
                 /\ \A j \in 1..Len(kids) : kids[j].name = SplitLast(kids[j].full_name)
        /\ \A k \in DOMAIN tc.processed_categories.val :
              AtDepthThree(k) =>
                  \A i \in 1..Len(tree) :
                      /\ tree[i].name # k
                      /\ \A j \in 1..Len(tree[i].children) : tree[i].children[j].full_name # k

\* the principal holding 127000 sees complaint with complaint|a and
\* complaint|b, not complaint|r that asks for 127002
C15_Witness ==
    /\ ret.op = "get_category_hierarchy"
    /\ ret.user = [is_anonymous |-> FALSE, perms |-> {"127000"}]
    /\ Known(Join(complaint, restricted_category))
    /\ ParentOf(Join(complaint, restricted_category)) = complaint
    /\ ~check_category_permission(tc, ret.user, Join(complaint, restricted_category))
    /\ Len(ret.result) = 1
    /\ ret.result[1].name = complaint
    /\ Len(ret.result[1].children) = 2
    /\ ret.result[1].children[1].full_name = Join(complaint, simple_category)
    /\ ret.result[1].children[1].name = simple_category
    /\ ret.result[1].children[2].full_name = Join(complaint, service_complaint)

\* a configured node that asks for a permission
PermissionBearingCategory(k) == Known(k) /\ CategoryPermissions(k) # <<>>
PermissionBearingFlag(k) == KnownFlag(k) /\ FlagPermissions(k) # <<>>

\* the identifier a call of the evaluator denies, if it denies one
DeniesCategory(k) ==
    \/ ret.op = "check_category_permission" /\ ret.result = FALSE /\ ret.category_name = k
    \/ /\ ret.op = "validate_ticket_access"
       /\ ret.result.raised
       /\ ret.result.what = "category"
       /\ ret.result.name = k

DeniesFlag(k) ==
    \/ ret.op = "check_flag_permission" /\ ret.result = FALSE /\ ret.flag_name = k
    \/ /\ ret.op = "validate_ticket_access"
       /\ ret.result.raised
       /\ ret.result.what = "flag"
       /\ ret.result.name = k

\* the view builders answer for names that are not configured
UnknownIsAnswered ==
    /\ (ret.op = "get_category_defaults" /\ ~Known(ret.category_name))
       => ret.result = [priority |-> "Medium", default_flags |-> <<>>]
    /\ (/\ ret.op = "get_effective_priority"
        /\ ~Known(ret.category_name)
        /\ \A l \in ListsOf[ret.flag_names] : \A i \in 1..Len(l) : ~KnownFlag(l[i]))
       => ret.result = "Medium"

\* C20: whenever check_category_permission, check_flag_permission or
\* validate_ticket_access denies, what is denied is a key of
\* processed_categories / processed_flags with a non-empty permissions list;
\* nothing is raised for a name that is not configured.
C20_OnlyPermissionBearingNodesDeny ==
    /\ \A k \in CategoryNames \cup CategoryArgs : DeniesCategory(k) => PermissionBearingCategory(k)
    /\ \A k \in FlagNames \cup FlagTokens : DeniesFlag(k) => PermissionBearingFlag(k)
    /\ UnknownIsAnswered

\* C20 as amended: that holds for an authenticated principal (an anonymous or
\* absent one is denied whatever the name).
C20_OnlyPermissionBearingNodesDenyAuthenticated ==
    /\ \A k \in CategoryNames \cup CategoryArgs :
          (DeniesCategory(k) /\ ~IsAnonymous(ret.user)) => PermissionBearingCategory(k)
    /\ \A k \in FlagNames \cup FlagTokens :
          (DeniesFlag(k) /\ ~IsAnonymous(ret.user)) => PermissionBearingFlag(k)
    /\ UnknownIsAnswered

\* a principal without permissions names a category nobody configured and
\* two flags: the open one passes, the one asking for permissions is denied
C20_Witness ==
    /\ ret.op = "validate_ticket_access"
    /\ ret.user = [is_anonymous |-> FALSE, perms |-> {}]
    /\ ret.category = unknown_category
    /\ tc.processed_categories.keys # <<>>
    /\ ~Known(unknown_category)
    /\ ret.flags = FlagList(<<urgent, sensitive>>)
    /\ KnownFlag(urgent)
    /\ PermissionBearingFlag(sensitive)
    /\ ret.result = PermissionDenied("flag", sensitive)

\* C24: with processed_flags non-empty filter_ticket_queryset removes a
\* ticket at the flag step exactly when the name of a flag restricted for the
\* user occurs, in any case, somewhere in the ticket's flags text: by
\* substring, not by token, so that a ticket whose tokens are all unrestricted
\* or authorized can be removed, and no ticket is removed without such an
\* occurrence.
C24_SubstringExclusion ==
    (ret.op = "filter_ticket_queryset" /\ tc.processed_flags.keys # <<>>) =>
        LET \* the ticket passes the category step
            CategoryKept(t) ==
                \/ tc.processed_categories.keys = <<>>
                \/ t.category \in Range(get_accessible_categories(tc, ret.user, TRUE))
            \* the flags that ask for a permission the user is refused
            RefusedFlags ==
                {flag \in DOMAIN tc.processed_flags.val :
                    FlagPermissions(flag) # <<>> /\ ~check_flag_permission(tc, ret.user, flag)}
            \* the name occurs somewhere in the text, whatever the case of the letters
            OccursIn(name, text) ==
                /\ text # None
                /\ \E i \in 0..(Len(text) - Len(name)) :
                      \A j \in 1..Len(name) : LowerChar(text[i + j]) = LowerChar(name[j])
        IN \A t \in ret.queryset :
               t \in ret.result <=>
                   /\ CategoryKept(t)
                   /\ \A flag \in RefusedFlags : ~OccursIn(flag, t.flags)

\* s is restricted for the principal without permissions; the ticket of the
\* accessible category a whose one token su is no configured flag is removed,
\* the ticket without flags stays
C24_Witness ==
    /\ ret.op = "filter_ticket_queryset"
    /\ pc = "loaded"
    /\ ret.user = [is_anonymous |-> FALSE, perms |-> {}]
    /\ PermissionBearingFlag(sensitive)
    /\ ~check_flag_permission(tc, ret.user, sensitive)
    /\ ~KnownFlag(<<"s", "u">>)
    /\ Split(<<"s", "u">>) = << <<"s", "u">> >>
    /\ check_flag_permission(tc, ret.user, <<"s", "u">>)
    /\ simple_category \in Range(get_accessible_categories(tc, ret.user, TRUE))
    /\ ret.queryset = {[category |-> simple_category, flags |-> <<"s", "u">>],
                       [category |-> simple_category, flags |-> urgent]}
    /\ ret.result = {[category |-> simple_category, flags |-> urgent]}

RECURSIVE IsSubSequence(_, _)
\* s is t with some of its elements left out
IsSubSequence(s, t) ==
    IF s = <<>> THEN TRUE
    ELSE IF t = <<>> THEN FALSE
    ELSE IF s[1] = t[1] THEN IsSubSequence(Tail(s), Tail(t))
    ELSE IsSubSequence(s, Tail(t))

\* C25: under one configuration, for authenticated principals A and B where B
\* holds every permission code A holds: a category or flag authorized for A
\* is authorized for B, get_accessible_categories(A) and
\* get_accessible_flags(A) are sub-sequences of those of B, and
\* filter_ticket_queryset(q, A) is a subset of filter_ticket_queryset(q, B).
C25_MonotoneInPermissions ==
    (ret.op # "none" /\ "user" \in DOMAIN ret /\ ~IsAnonymous(ret.user)) =>
        \A B \in {U \in Users : ~IsAnonymous(U) /\ ret.user.perms \subseteq U.perms} :
            /\ (ret.op = "check_category_permission" /\ ret.result)
               => check_category_permission(tc, B, ret.category_name)
            /\ (ret.op = "check_flag_permission" /\ ret.result)
               => check_flag_permission(tc, B, ret.flag_name)
            /\ ret.op = "get_accessible_categories"
               => IsSubSequence(ret.result,
                                get_accessible_categories(tc, B, ret.include_children))
            /\ ret.op = "get_accessible_flags"
               => IsSubSequence(ret.result, get_accessible_flags(tc, B))
            /\ ret.op = "filter_ticket_queryset"
               => ret.result \subseteq filter_ticket_queryset(tc, ret.queryset, B)

\* A holds 127000 and sees the ticket of complaint, not the one flagged s;
\* B holds 127000 and 127002 and sees both
C25_Witness ==
    /\ ret.op = "filter_ticket_queryset"
    /\ pc = "loaded"
    /\ ret.user = [is_anonymous |-> FALSE, perms |-> {"127000"}]
    /\ ret.queryset = {[category |-> complaint, flags |-> <<"u", " ", "s">>],
                       [category |-> simple_category, flags |-> urgent]}
    /\ ret.result = {[category |-> simple_category, flags |-> urgent]}
    /\ filter_ticket_queryset(tc, ret.queryset,
                              [is_anonymous |-> FALSE, perms |-> {"127000", "127002"}])
          = ret.queryset

\* C26: with processed_categories non-empty filter_ticket_queryset removes,
\* for every principal, the one holding every permission included, every
\* ticket whose category is not an entry of the flat grievance_types list,
\* although for an authenticated principal and a category that is no key of
\* processed_categories check_category_permission returns True and
\* validate_ticket_access accepts the category.
C26_UnknownCategoryHidden ==
    (ret.op = "filter_ticket_queryset" /\ tc.processed_categories.keys # <<>>) =>
        \A t \in ret.queryset :
            t.category \notin Range(Names(tc.grievance_types)) =>
                /\ t \notin ret.result
                /\ (~IsAnonymous(ret.user) /\ ~Known(t.category)) =>
                      /\ check_category_permission(tc, ret.user, t.category)
                      /\ validate_ticket_access(tc, ret.user, t.category, NoFlags) = Returned

\* loaded: the principal holding every permission asks for the ticket of z,
\* which is neither in the flat list nor a key, and for a ticket of a: only
\* the second comes back
C26_Witness ==
    /\ ret.op = "filter_ticket_queryset"
    /\ pc = "loaded"
    /\ ret.user = AllPermissions
    /\ tc.processed_categories.keys # <<>>
    /\ ~Known(unknown_category)
    /\ unknown_category \notin Range(Names(tc.grievance_types))
    /\ check_category_permission(tc, ret.user, unknown_category)
    /\ ret.queryset = {[category |-> unknown_category, flags |-> <<>>],
                       [category |-> simple_category, flags |-> urgent]}
    /\ ret.result = {[category |-> simple_category, flags |-> urgent]}

\* every path a hierarchy shows: the names of its roots and the full names
\* of their children
ShownPaths(tree) ==
    {tree[i].name : i \in 1..Len(tree)}
    \cup UNION {{tree[i].children[j].full_name : j \in 1..Len(tree[i].children)} :
                   i \in 1..Len(tree)}

\* C30: after a complete load (none has begun since, or the last one has
\* ended) with processed_categories non-empty, every
\* path that get_category_hierarchy(user) shows is an element of
\* get_accessible_categories(user, True), and the paths of the flat view that
\* the hierarchy does not show are exactly the accessible paths three deep or
\* more and the accessible children of a root the user is refused.
C30_HierarchyWithinFlatView ==
    (/\ pc \in {"start", "loaded"}
     /\ ret.op = "get_category_hierarchy"
     /\ tc.processed_categories.keys # <<>>)
    => LET shown == ShownPaths(ret.result)
           flat == Range(get_accessible_categories(tc, ret.user, TRUE))
           \* the node is a direct child of a root that the principal is refused
           UnderDeniedRoot(user, k) ==
               /\ Truthy(ParentOf(k))
               /\ Known(ParentOf(k))
               /\ ~Truthy(ParentOf(ParentOf(k)))
               /\ ~check_category_permission(tc, user, ParentOf(k))
       IN /\ shown \subseteq flat
          /\ flat \ shown =
                 {k \in DOMAIN tc.processed_categories.val :
                     /\ check_category_permission(tc, ret.user, k)
                     /\ (AtDepthThree(k) \/ UnderDeniedRoot(ret.user, k))}

\* the principal without permissions is refused complaint (127001): the
\* hierarchy shows the root r alone, the flat view also has the open
\* complaint|a|r, three deep
C30_Witness ==
    /\ pc = "loaded"
    /\ ret.op = "get_category_hierarchy"
    /\ ret.user = [is_anonymous |-> FALSE, perms |-> {}]
    /\ Known(Join(Join(complaint, simple_category), restricted_category))
    /\ AtDepthThree(Join(Join(complaint, simple_category), restricted_category))
    /\ ~check_category_permission(tc, ret.user, complaint)
    /\ ShownPaths(ret.result) = {restricted_category}
    /\ Range(get_accessible_categories(tc, ret.user, TRUE)) =
           {restricted_category, Join(Join(complaint, simple_category), restricted_category)}

----------------------------------------------------------------------------
(* Properties of the normaliser, stated on the entries of the raw input *)

RECURSIVE PositionsOf(_)
\* the positions of the entries of a forest: <<i>> is the i-th root, p \o <<j>>
\* the j-th child of the entry at p
PositionsOf(items) ==
    UNION { {<<i>>} \cup {<<i>> \o q : q \in PositionsOf(DictGet(items[i], "children", <<>>))} :
            i \in 1..Len(items) }

RECURSIVE EntryIn(_, _)
EntryIn(items, pos) ==
    IF Len(pos) = 1 THEN items[pos[1]]
    ELSE EntryIn(DictGet(items[pos[1]], "children", <<>>), Tail(pos))

RawTypes == DictGet(raw, "grievance_types", <<>>)
EntryAt(pos) == EntryIn(RawTypes, pos)
ParentPos(pos) == SubSeq(pos, 1, Len(pos) - 1)
NameOf(item) == IF IsStr(item) THEN item.str ELSE DictGet(item, "name", None)

\* the entry is recorded: it has a name, and so has every dict it is nested in
Processed(pos) ==
    \A k \in 1..Len(pos) :
        LET e == EntryAt(SubSeq(pos, 1, k)) IN IsStr(e) \/ Truthy(NameOf(e))

ProcessedPositions == {pos \in PositionsOf(RawTypes) : Processed(pos)}

FullNameAt(pos) == JoinWith(<<"|">>, [k \in 1..Len(pos) |-> NameOf(EntryAt(SubSeq(pos, 1, k)))])

\* q comes before pos in the order of processing (pre-order)
Before(q, pos) ==
    \/ Len(q) < Len(pos) /\ q = SubSeq(pos, 1, Len(q))
    \/ \E k \in 1..Len(q) :
          /\ k <= Len(pos)
          /\ \A j \in 1..(k - 1) : q[j] = pos[j]
          /\ q[k] < pos[k]

\* no later entry has the same full path
LastWithItsPath(pos) ==
    LET full_name == FullNameAt(pos)
    IN \A q \in ProcessedPositions : q = pos \/ Before(q, pos) \/ FullNameAt(q) # full_name

InheritedFields == {"priority", "permissions", "default_flags", "resolution_times"}
RootDefault(f) == IF f = "priority" THEN "Medium" ELSE IF f = "resolution_times" THEN None ELSE <<>>

\* the node recorded for the path of the entry at pos
Recorded(pos) == cfg.processed_categories.val[FullNameAt(pos)]

\* C5: at every depth a child records its parent's resolved value for each of
\* priority / permissions / default_flags / resolution_times it does not
\* specify and its own value for each one it specifies; a root without a
\* field records 'Medium', [], [] and no resolution_times.
C5_InheritOrOwn ==
    pc # "start" =>
        \A pos \in ProcessedPositions : \A f \in InheritedFields :
            LET e == EntryAt(pos) IN
            Recorded(pos)[f] =
                IF IsDict(e) /\ f \in DOMAIN e THEN e[f]
                ELSE IF Len(pos) = 1 THEN RootDefault(f)
                ELSE Recorded(ParentPos(pos))[f]

\* the entry gives the field; an empty resolution_times is as good as none
Specifies(e, f) ==
    /\ IsDict(e)
    /\ f \in DOMAIN e
    /\ (f = "resolution_times" => Truthy(e[f]))

RECURSIVE Resolved(_, _)
\* the value the entry at pos resolves to: its own, else that of the entry it
\* is nested in; a root falls back to what it gives, else to the default
Resolved(pos, f) ==
    LET e == EntryAt(pos) IN
    IF Specifies(e, f) THEN e[f]
    ELSE IF Len(pos) = 1 THEN (IF IsDict(e) THEN DictGet(e, f, RootDefault(f)) ELSE RootDefault(f))
    ELSE Resolved(ParentPos(pos), f)

\* C5 as amended: the entry that is the last one of the input with its full
\* path is recorded with the value it resolves to, where a resolution_times
\* that is '' or None counts as not specified.
C5_InheritOrOwnLastEntry ==
    pc # "start" =>
        \A pos \in ProcessedPositions :
            LastWithItsPath(pos) =>
                \A f \in InheritedFields : Recorded(pos)[f] = Resolved(pos, f)

\* three levels: the grandchild gives an empty permissions list and an empty
\* SLA under a child that gives nothing under a root that gives everything
C5_Witness ==
    /\ pc = "categories"
    /\ \E pos \in ProcessedPositions :
          /\ Len(pos) = 3
          /\ LastWithItsPath(pos)
          /\ IsDict(EntryAt(pos))
          /\ DictGet(EntryAt(pos), "resolution_times", None) = <<>>
          /\ DictGet(EntryAt(pos), "permissions", None) = <<>>
          /\ DOMAIN EntryAt(ParentPos(pos)) \cap InheritedFields = {}
          /\ Recorded(pos).resolution_times = <<"2", ",", "0">>
          /\ Recorded(pos).permissions = <<>>
          /\ Recorded(pos).default_flags = <<urgent>>
          /\ Recorded(pos).priority = "Low"
          /\ Recorded(ParentPos(pos)).permissions = <<"127000", "127001">>

\* the nodes the normaliser has recorded, by path
Nodes == cfg.processed_categories.val

\* the parent of the node is recorded and the node's path is the parent's
\* path, the separator and the last segment of its own
UnderItsParent(k) ==
    /\ Nodes[k].parent \in DOMAIN Nodes
    /\ k = Join(Nodes[k].parent, SplitLast(k))

\* the parent's children map sends the last segment of the path to the path
LinkedFromParent(k) ==
    /\ SplitLast(k) \in DOMAIN Nodes[Nodes[k].parent].children
    /\ Nodes[Nodes[k].parent].children[SplitLast(k)] = k

\* C21: after __process_unified_categories, on any input (any depth, plain
\* or dict entries, names given twice, skipped entries), every node whose
\* parent is not None has a parent path that is a key of processed_categories,
\* a key that is parent + '|' + its short name, and a parent whose children
\* map sends that short name to the node's key.
C21_ParentLinks ==
    pc # "start" =>
        \A k \in DOMAIN Nodes :
            Truthy(Nodes[k].parent) => UnderItsParent(k) /\ LinkedFromParent(k)

\* C21 as amended: the parent is a key and the key is parent + '|' + short
\* name, always; the parent's children map has the link when the entry the
\* node comes from is nested in the last entry of the input with the
\* parent's path (a path given again replaces the node, children map and all).
C21_ParentLinksOfLastEntries ==
    /\ pc # "start" =>
          \A k \in DOMAIN Nodes : Truthy(Nodes[k].parent) => UnderItsParent(k)
    /\ pc = "categories" =>
          \A pos \in ProcessedPositions :
              (Len(pos) >= 2 /\ LastWithItsPath(pos)) =>
                  /\ Recorded(pos).parent = FullNameAt(ParentPos(pos))
                  /\ FullNameAt(pos) = Join(Recorded(pos).parent, NameOf(EntryAt(pos)))
                  /\ LastWithItsPath(ParentPos(pos)) => LinkedFromParent(FullNameAt(pos))

\* three levels under the last entries of their paths: complaint|complaint|a
\* is linked from complaint|complaint, which is linked from complaint
C21_Witness ==
    /\ pc = "categories"
    /\ \E pos \in ProcessedPositions :
          /\ Len(pos) = 3
          /\ LastWithItsPath(pos)
          /\ LastWithItsPath(ParentPos(pos))
          /\ LastWithItsPath(ParentPos(ParentPos(pos)))
          /\ FullNameAt(pos) = Join(Join(complaint, complaint), simple_category)
          /\ Recorded(pos).parent = Join(complaint, complaint)
          /\ Recorded(ParentPos(pos)).children[simple_category] = FullNameAt(pos)
          /\ Recorded(ParentPos(ParentPos(pos))).children[complaint] = Join(complaint, complaint)

\* C22: the flat grievance_types list that __process_unified_categories
\* writes is the pre-order traversal of the input forest: each path is
\* followed at once by all its descendants, siblings keep the order of the
\* input, a list of plain strings comes back as it was given, and the set of
\* its entries is the key set of processed_categories.
C22_FlatListIsPreOrder ==
    pc # "start" =>
        LET flat_types == cfg.grievance_types
            \* the place of the entry in the pre-order of the recorded entries
            PreOrderRank(pos) == 1 + Cardinality({q \in ProcessedPositions : Before(q, pos)})
            \* the recorded entries nested, at any depth, in the entry at pos
            Descendants(pos) ==
                {q \in ProcessedPositions : Len(q) > Len(pos) /\ SubSeq(q, 1, Len(pos)) = pos}
        IN
        /\ Len(flat_types) = Cardinality(ProcessedPositions)
        /\ \A pos \in ProcessedPositions :
              /\ flat_types[PreOrderRank(pos)] = Str(FullNameAt(pos))
              /\ {PreOrderRank(q) : q \in Descendants(pos)} =
                     (PreOrderRank(pos) + 1)..(PreOrderRank(pos) + Cardinality(Descendants(pos)))
              /\ \A q \in ProcessedPositions :
                    (ParentPos(q) = ParentPos(pos) /\ q[Len(q)] < pos[Len(pos)])
                    => PreOrderRank(q) < PreOrderRank(pos)
        /\ (\A i \in 1..Len(RawTypes) : IsStr(RawTypes[i])) => flat_types = RawTypes
        /\ Range(Names(flat_types)) = DOMAIN Nodes

\* three levels with a path given twice at two of them: the list is
\* c, c|c, c|c|a, c|c, c, the second run gives it back as it is
C22_Witness ==
    /\ pc = "categories_again"
    /\ Cardinality(ProcessedPositions) = 5
    /\ \E pos \in ProcessedPositions : Len(pos) = 3
    /\ Names(cfg.grievance_types) =
           <<complaint, Join(complaint, complaint),
             Join(Join(complaint, complaint), simple_category),
             Join(complaint, complaint), complaint>>

\* what the first run recorded for the raw configuration
FirstRun == process_unified_categories(raw).processed_categories

\* the node of a plain root name
PlainRoot ==
    [priority |-> "Medium", permissions |-> <<>>, default_flags |-> <<>>,
     resolution_times |-> None, parent |-> None, children |-> EmptyMap]

\* C27: __process_unified_categories run a second time on the cfg whose
\* grievance_types it has replaced by the flat list of paths keeps the key
\* set and records every path as a root: parent None, priority 'Medium', no
\* permissions, no default_flags, no resolution_times; every category that
\* was restricted is then open to any authenticated principal.
C27_SecondRunForgets ==
    pc = "categories_again" =>
        /\ DOMAIN Nodes = DOMAIN FirstRun.val
        /\ \A k \in DOMAIN Nodes : Nodes[k] = PlainRoot
        /\ tc.processed_categories = cfg.processed_categories
        /\ \A user \in Users : \A k \in DOMAIN Nodes :
              check_category_permission(tc, user, k) = ~IsAnonymous(user)

\* the first run recorded complaint|complaint under complaint with 127002
\* and an SLA; after the second run the principal without permissions, who
\* was refused, is let in
C27_Witness ==
    /\ pc = "categories_again"
    /\ Join(complaint, complaint) \in DOMAIN FirstRun.val
    /\ FirstRun.val[Join(complaint, complaint)].parent = complaint
    /\ FirstRun.val[Join(complaint, complaint)].permissions = <<"127002">>
    /\ FirstRun.val[Join(complaint, complaint)].resolution_times = <<"9", "9", ",", "0">>
    /\ FirstRun.val[complaint].children # EmptyMap
    /\ ~check_category_permission([tc EXCEPT !.processed_categories = FirstRun],
                                  [is_anonymous |-> FALSE, perms |-> {}],
                                  Join(complaint, complaint))
    /\ Nodes[Join(complaint, complaint)] = PlainRoot
    /\ check_category_permission(tc, [is_anonymous |-> FALSE, perms |-> {}],
                                 Join(complaint, complaint))

----------------------------------------------------------------------------
(* Properties of the reconciler *)

\* the legacy map and the global default as configured
LegacyRaw == DictGet(raw, "default_resolution", EmptyMap)
GlobalDefault == DictGet(raw, "resolution_times", DEFAULT_TIME_RESOLUTION)

\* the node recorded for the path has an SLA
HasCategoryValue(k) ==
    /\ k \in DOMAIN cfg.processed_categories.val
    /\ Truthy(cfg.processed_categories.val[k].resolution_times)

\* C16: after __process_unified_categories and
\* __validate_grievance_default_resolution_time, unified_resolution_times has,
\* for every path whose entry gives a non-empty resolution_times and for every
\* path whose node records one, that value, whatever default_resolution has
\* for the same key; every key of default_resolution without a category value
\* has its legacy value (the global default where the legacy value is empty).
C16_CategoryOverridesLegacy ==
    pc \in {"reconciled", "loaded"} =>
        LET unified == cfg.unified_resolution_times IN
        /\ \A pos \in ProcessedPositions :
              (LastWithItsPath(pos) /\ Specifies(EntryAt(pos), "resolution_times"))
              => /\ FullNameAt(pos) \in DOMAIN unified
                 /\ unified[FullNameAt(pos)] = EntryAt(pos).resolution_times
        /\ \A k \in DOMAIN cfg.processed_categories.val :
              HasCategoryValue(k)
              => /\ k \in DOMAIN unified
                 /\ unified[k] = cfg.processed_categories.val[k].resolution_times
        /\ \A k \in DOMAIN LegacyRaw :
              ~HasCategoryValue(k)
              => /\ k \in DOMAIN unified
                 /\ unified[k] = IF LegacyRaw[k] \in {<<>>, None} THEN GlobalDefault
                                 ELSE LegacyRaw[k]
        /\ pc = "loaded" => tc.unified_resolution_times = unified

\* complaint gives '2,0' where default_resolution says '7,0'; the legacy key
\* nobody configures keeps 'abc', the plain root keeps '3,0'
C16_Witness ==
    /\ pc = "reconciled"
    /\ LegacyRaw[complaint] = <<"7", ",", "0">>
    /\ \E pos \in ProcessedPositions :
          /\ FullNameAt(pos) = complaint
          /\ LastWithItsPath(pos)
          /\ Specifies(EntryAt(pos), "resolution_times")
          /\ EntryAt(pos).resolution_times = <<"2", ",", "0">>
    /\ cfg.unified_resolution_times[complaint] = <<"2", ",", "0">>
    /\ cfg.unified_resolution_times[unknown_category] = <<"a", "b", "c">>
    /\ ~HasCategoryValue(Join(complaint, simple_category))
    /\ cfg.unified_resolution_times[Join(complaint, simple_category)] = DEFAULT_TIME_RESOLUTION

\* the entry at pos is nested, gives no SLA of its own and is nested in an
\* entry that resolves to one
InheritsValue(pos) ==
    /\ Len(pos) >= 2
    /\ ~Specifies(EntryAt(pos), "resolution_times")
    /\ Truthy(Resolved(ParentPos(pos), "resolution_times"))

\* C29: a child category that gives no resolution_times of its own and whose
\* parent resolves to a non-empty one has the parent's value in
\* unified_resolution_times under its own full path, whatever
\* default_resolution has for that path; a category whose resolved
\* resolution_times is absent and that has no legacy entry has no key in
\* unified_resolution_times.
C29_InheritedOverridesLegacy ==
    pc \in {"reconciled", "loaded"} =>
        LET unified == cfg.unified_resolution_times IN
        /\ \A pos \in ProcessedPositions :
              (LastWithItsPath(pos) /\ InheritsValue(pos)) =>
                  /\ FullNameAt(pos) \in DOMAIN unified
                  /\ unified[FullNameAt(pos)] = Resolved(ParentPos(pos), "resolution_times")
        /\ \A k \in DOMAIN Nodes :
              (~Truthy(Nodes[k].resolution_times) /\ k \notin DOMAIN LegacyRaw)
              => k \notin DOMAIN unified

\* the plain name a under complaint takes '2,0' from complaint, where the
\* legacy map had an empty entry for complaint|a that became '5,0'
C29_Witness ==
    /\ pc = "reconciled"
    /\ LegacyRaw[Join(complaint, simple_category)] = <<>>
    /\ \E pos \in ProcessedPositions :
          /\ LastWithItsPath(pos)
          /\ InheritsValue(pos)
          /\ IsStr(EntryAt(pos))
          /\ FullNameAt(pos) = Join(complaint, simple_category)
          /\ Resolved(ParentPos(pos), "resolution_times") = <<"2", ",", "0">>
    /\ cfg.unified_resolution_times[Join(complaint, simple_category)] = <<"2", ",", "0">>
    /\ cfg.default_resolution[Join(complaint, simple_category)] = DEFAULT_TIME_RESOLUTION

\* the piece reads as an integer that is not negative
IsNonNegativeInteger(part) == ~int(part).raised /\ int(part).v >= 0

\* C17: __validate_resolution_time_format accepts a string if and only if it
\* is exactly two comma-separated non-negative integers, days in [0,99) and
\* hours in [0,24); a string with another number of comma-separated pieces is
\* rejected.
C17_ExactlyDaysAndHours ==
    ret.op = "validate_resolution_time_format" =>
        LET parts == SplitComma(ret.value) IN
        ret.result = (/\ Len(parts) = 2
                      /\ IsNonNegativeInteger(parts[1])
                      /\ IsNonNegativeInteger(parts[2])
                      /\ int(parts[1]).v < 99
                      /\ int(parts[2]).v < 24)

\* a dict entry without a name
IsNameless(e) == IsDict(e) /\ ~Truthy(DictGet(e, "name", None))

RECURSIVE WithoutNameless(_)
\* the list without its dicts that have no name, at every depth
WithoutNameless(items) ==
    LET Named(e) == ~IsNameless(e)
        kept == SelectSeq(items, Named)
    IN [i \in 1..Len(kept) |->
           IF IsDict(kept[i]) /\ "children" \in DOMAIN kept[i]
           THEN [kept[i] EXCEPT !.children = WithoutNameless(@)]
           ELSE kept[i]]

\* the raw configuration as if its malformed entries had never been given
RawWithoutNameless ==
    [grievance_types |-> WithoutNameless(RawTypes),
     grievance_flags |-> WithoutNameless(DictGet(raw, "grievance_flags", <<>>))]

\* an SLA string that __validate_resolution_time_format warns about
Malformed(value) == Truthy(value) /\ ~validate_resolution_time_format(value)

\* C19: the load is not stopped by a malformed entry: at every step of
\* ready() a category dict without a name is skipped with all that is nested
\* in it, a flag dict without a name is skipped, and what is recorded is what
\* the input without these entries gives; a malformed SLA string is left as it
\* is, in default_resolution and in unified_resolution_times; at the end
\* TicketConfig holds what was recorded.
C19_MalformedEntriesSkipped ==
    /\ pc # "start" =>
          /\ cfg.processed_categories =
                 process_unified_categories(RawWithoutNameless).processed_categories
          /\ cfg.grievance_types = process_unified_categories(RawWithoutNameless).flat_types
          /\ DOMAIN cfg.processed_categories.val = {FullNameAt(pos) : pos \in ProcessedPositions}
          /\ Len(cfg.grievance_types) = Cardinality(ProcessedPositions)
    /\ pc \notin {"start", "categories"} =>
          /\ cfg.processed_flags = process_unified_flags(RawWithoutNameless).processed_flags
          /\ cfg.grievance_flags = process_unified_flags(RawWithoutNameless).flat_flags
    /\ pc \in {"reconciled", "loaded"} =>
          /\ \A k \in DOMAIN LegacyRaw :
                Malformed(LegacyRaw[k])
                => /\ cfg.default_resolution[k] = LegacyRaw[k]
                   /\ ~HasCategoryValue(k) => cfg.unified_resolution_times[k] = LegacyRaw[k]
          /\ \A k \in DOMAIN cfg.processed_categories.val :
                Malformed(cfg.processed_categories.val[k].resolution_times)
                => cfg.unified_resolution_times[k] = cfg.processed_categories.val[k].resolution_times
    /\ pc = "loaded" =>
          /\ tc.processed_categories = cfg.processed_categories
          /\ tc.processed_flags = cfg.processed_flags
          /\ tc.grievance_types = cfg.grievance_types
          /\ tc.unified_resolution_times = cfg.unified_resolution_times

\* loaded: a nameless dict with children sits under a named root and is
\* followed by an entry that is recorded; nothing nested in it is recorded;
\* the nameless flag is not recorded; 'abc' and '99,0' are where they were put
C19_Witness ==
    /\ pc = "loaded"
    /\ \E pos \in PositionsOf(RawTypes), q \in ProcessedPositions :
          /\ Len(pos) = 2
          /\ IsNameless(EntryAt(pos))
          /\ DictGet(EntryAt(pos), "children", <<>>) # <<>>
          /\ ParentPos(q) = ParentPos(pos)
          /\ q[2] = pos[2] + 1
          /\ FullNameAt(q) \in Range(Names(tc.grievance_types))
    /\ Len(tc.grievance_types) = 2
    /\ Len(raw.grievance_flags) = 3
    /\ Len(tc.grievance_flags) = 2
    /\ tc.unified_resolution_times[unknown_category] = <<"a", "b", "c">>
    /\ Malformed(tc.unified_resolution_times[complaint])

----------------------------------------------------------------------------
(* Properties of ready() as seen by the callers *)

\* the whole snapshots a caller may be given: the TicketConfig that ready()
\* found and the TicketConfig that it leaves
WholeSnapshots ==
    InitialTicketConfigs \cup {Snapshot(raw, T) : T \in InitialTicketConfigs}

\* C18: a call of check_category_permission, get_accessible_categories,
\* get_accessible_flags or filter_ticket_queryset between any two steps of
\* ready() returns what it returns under the snapshot before ready() or under
\* the snapshot after it, never a result of a mix of the two.
C18_AtomicForReaders ==
    /\ ret.op = "check_category_permission"
       => \E T \in WholeSnapshots :
             ret.result = check_category_permission(T, ret.user, ret.category_name)
    /\ ret.op = "get_accessible_categories"
       => \E T \in WholeSnapshots :
             ret.result = get_accessible_categories(T, ret.user, ret.include_children)
    /\ ret.op = "get_accessible_flags"
       => \E T \in WholeSnapshots : ret.result = get_accessible_flags(T, ret.user)
    /\ ret.op = "filter_ticket_queryset"
       => \E T \in WholeSnapshots :
             ret.result = filter_ticket_queryset(T, ret.queryset, ret.user)

SelfConsistent(T) ==
    /\ Range(Names(T.grievance_types)) = DOMAIN T.processed_categories.val
    /\ Range(Names(T.grievance_flags)) = DOMAIN T.processed_flags.val
    /\ \A k \in DOMAIN T.processed_categories.val :
          Truthy(T.processed_categories.val[k].resolution_times) =>
              /\ k \in DOMAIN T.unified_resolution_times
              /\ T.unified_resolution_times[k] = T.processed_categories.val[k].resolution_times

\* C28: after a complete ready() the entries of TicketConfig.grievance_types
\* are the keys of processed_categories, the entries of grievance_flags the
\* keys of processed_flags, and unified_resolution_times has the resolved
\* resolution_times of every category that has one; between the steps of a
\* ready() that started from the attributes as declared and has recorded a
\* category or a flag this does not hold.
C28_ConsistentOnceLoaded ==
    /\ pc = "loaded" => SelfConsistent(tc)
    /\ (/\ pc \in {"categories", "flags", "validated", "reconciled"}
        /\ (tc.processed_categories.keys # <<>> \/ tc.processed_flags.keys # <<>>))
       => ~SelfConsistent(tc)

\* loaded, three levels, a path given twice, a nameless flag skipped, a
\* category SLA over a legacy one
C28_Witness ==
    /\ pc = "loaded"
    /\ Len(tc.grievance_types) = 4
    /\ Cardinality(DOMAIN tc.processed_categories.val) = 3
    /\ Join(Join(complaint, complaint), simple_category) \in DOMAIN tc.processed_categories.val
    /\ Len(raw.grievance_flags) = 3
    /\ Names(tc.grievance_flags) = <<sensitive, sensitive \o urgent>>
    /\ tc.processed_categories.val[complaint].resolution_times = <<"2", ",", "0">>
    /\ raw.default_resolution[complaint] = <<"7", ",", "0">>
    /\ tc.unified_resolution_times[complaint] = <<"2", ",", "0">>
    /\ SelfConsistent(tc)

====
